---- MODULE Spec2Model ----
(***************************************************************************)
(* RenewalRadar: a command-line subscription tracker.                      *)
(*                                                                         *)
(* The model covers the persistent store (the subscriptions table and the  *)
(* budgets table), the command registry read by cli.main, the command     *)
(* handlers (delete, budget, add, update-status, view, summary) together   *)
(* with the DatabaseManager calls they make, the Subscription model, the   *)
(* currency converters and the connection of a DatabaseManager.            *)
(*                                                                         *)
(* Conventions                                                             *)
(*   - Python None is NoneStr for a string and NoneInt for an integer.     *)
(*   - An ISO date 'YYYY-MM-DD' is the integer YYYY*10000 + MM*100 + DD,   *)
(*     whose order is the order of the ISO strings SQLite compares.        *)
(*   - Money is an integer number of cents.                                *)
(*   - op is the record of the last command run: its arguments, the value  *)
(*     execute returned (ret), and the exception that left execute (exc).  *)
(*   - db_manager is the DatabaseManager last used: the one a run of       *)
(*     summary or view created, or the instance the operations of          *)
(*     SpecManager are called on.                                          *)
(***************************************************************************)
EXTENDS Integers, Sequences, FiniteSets, TLC

VARIABLES subs, budgets, COMMANDS, db_manager, op, report

vars == <<subs, budgets, COMMANDS, db_manager, op, report>>

----------------------------------------------------------------------------
(* Representation of Python values                                         *)

NoneStr == "<None>"
NoneInt == -1
\* execute fell off its end: Python returns None
RetNone == -1
NoExc == ""

----------------------------------------------------------------------------
(* Bounds                                                                  *)

\* rows in the subscriptions table
MaxSubs == 2
\* rows in the budgets table
MaxBudgets == 2
\* largest rowid the subscriptions table hands out
MaxId == MaxSubs

----------------------------------------------------------------------------
(* The clock: datetime.datetime.now() during a run                         *)

CurrentYear == 2024
CurrentMonth == 2

----------------------------------------------------------------------------
(* Command registry: registry.py, commands/__init__.py, config.py, cli.py  *)

\* the command surface of the tool
CommandSurface ==
  {"add", "delete", "update-status", "view", "summary", "budget", "list-usage"}

\* the `name` attribute of the command class each module defines
CommandName ==
  [view |-> "view", add |-> "add", update_status |-> "update-status",
   summary |-> "summary", list_usage |-> "list-usage",
   delete |-> "delete", budget |-> "budget"]

\* the modules commands/__init__.py imports; config.py imports the package
ImportedModules == {"view", "add", "update_status", "summary", "list_usage"}

\* register_command runs once per imported module, as its class decorator
register_command(registry, module) == registry \cup {CommandName[module]}

RECURSIVE RegisterAll(_, _)
RegisterAll(registry, modules) ==
  IF modules = {} THEN registry
  ELSE LET m == CHOOSE x \in modules : TRUE
       IN RegisterAll(register_command(registry, m), modules \ {m})

----------------------------------------------------------------------------
(* The subscriptions table                                                 *)

NoParent == 0

\* str.lower() on the names that occur
Lower(name) ==
  CASE name = "Netflix" -> "netflix"
    [] name = "netflix" -> "netflix"
    [] name = "NETFLIX" -> "netflix"
    [] name = "Hulu" -> "hulu"
    [] name = "hulu" -> "hulu"
    [] name = "WORK" -> "work"
    [] OTHER -> name

Ids(store) == {s.id : s \in store}

RECURSIVE MaxOf(_)
MaxOf(S) ==
  IF S = {} THEN 0
  ELSE LET x == CHOOSE y \in S : TRUE
           m == MaxOf(S \ {x})
       IN IF x > m THEN x ELSE m

\* INTEGER PRIMARY KEY: the new rowid is one more than the largest in use
NextRowId(store) == MaxOf(Ids(store)) + 1

\* a row as the data model describes it; id is assigned on insert
NewRow(store, f) ==
  [id |-> NextRowId(store),
   name |-> f.name,
   parent_subscription_id |-> f.parent_subscription_id,
   status |-> f.status,
   currency |-> f.currency,
   cost |-> f.cost,
   billing_cycle |-> f.billing_cycle,
   start_date |-> f.start_date,
   renewal_date |-> f.renewal_date,
   payment_method |-> f.payment_method,
   tags |-> f.tags]

\* DatabaseManager.get_subscriptions(): every row, or the rows with an id
get_subscriptions(store, subscription_id) ==
  IF subscription_id = NoneInt THEN store
  ELSE {s \in store : s.id = subscription_id}

\* DatabaseManager.delete_subscription_by_id: DELETE ... WHERE id = ?
delete_subscription_by_id(store, subscription_id) ==
  [store |-> {s \in store : s.id # subscription_id},
   success |-> Cardinality({s \in store : s.id = subscription_id}) > 0]

----------------------------------------------------------------------------
(* The connection of a DatabaseManager: self.conn is None, or a connection *)
(* that is open, or a connection that has been closed                      *)

\* DatabaseManager(): self.conn = None
DatabaseManager == [conn |-> NoneStr]

\* connect(): a connection is opened only when self.conn is None
connect(m) == IF m.conn = NoneStr THEN [conn |-> "open"] ELSE m

\* close(): if self.conn: self.conn.close(); self.conn = None
close(m) == [conn |-> NoneStr]

\* cursor.execute on the connection connect() returned: sqlite3 raises
\* ProgrammingError on a closed connection
Executes(m) == connect(m).conn = "open"

\* a method that ends without closing, as get_filtered_subscriptions and
\* delete_subscription do
Queried(m) == connect(m)

\* a method that ends with conn.close() and leaves self.conn as it is, as
\* add_subscription, update_subscription, update_subscription_status,
\* get_distinct_values and get_all_tags do
ClosedInPlace(m) == [conn |-> "closed"]

----------------------------------------------------------------------------
(* DeleteCommand                                                           *)

_get_subscription_by_name_case_insensitive(store, name) ==
  {s \in get_subscriptions(store, NoneInt) : Lower(s.name) = Lower(name)}

\* mutant: the link is followed the wrong way, from the row to its parent
_get_child_subscriptions_inverted(store, parent_id) ==
  {s \in get_subscriptions(store, NoneInt) :
     \E p \in store : p.id = parent_id /\ p.parent_subscription_id = s.id}

_get_child_subscriptions(store, parent_id) ==
  {s \in get_subscriptions(store, NoneInt) : s.parent_subscription_id = parent_id}

\* mutant: the confirmation check is dropped
DeletionConfirmed_always(args) == TRUE

\* delete.py:230, negated: deletion goes ahead with --confirm or --force
DeletionConfirmed(args) == args.confirm \/ args.force

DeleteResult(ret, outcome, target, store) ==
  [ret |-> ret, outcome |-> outcome, target |-> target, store |-> store]

\* DeleteCommand.execute: the value returned, the branch taken, the row
\* resolved as the target, and the store after the call
DeleteCommand_execute(store, args) ==
  IF (args.name # NoneStr /\ args.id # NoneInt)
     \/ (args.name = NoneStr /\ args.id = NoneInt)
  THEN DeleteResult(1, "bad_identifier", NoneInt, store)
  ELSE IF args.dry_run /\ args.force
  THEN DeleteResult(1, "dry_run_and_force", NoneInt, store)
  ELSE
    LET subscriptions ==
          IF args.name # NoneStr
          THEN _get_subscription_by_name_case_insensitive(store, args.name)
          ELSE get_subscriptions(store, args.id)
    IN
    IF args.name # NoneStr /\ Cardinality(subscriptions) > 1
    THEN DeleteResult(1, "multiple_matches", NoneInt, store)
    ELSE IF subscriptions = {}
    THEN DeleteResult(1, "not_found", NoneInt, store)
    ELSE
      LET subscription == CHOOSE s \in subscriptions : TRUE
          child_subscriptions == _get_child_subscriptions(store, subscription.id)
      IN
      IF child_subscriptions # {}
      THEN DeleteResult(1, "has_children", subscription.id, store)
      ELSE IF args.dry_run
      THEN DeleteResult(0, "dry_run", subscription.id, store)
      ELSE IF ~DeletionConfirmed(args)
      THEN DeleteResult(1, "not_confirmed", subscription.id, store)
      ELSE
        LET d == delete_subscription_by_id(store, subscription.id)
        IN IF d.success
           THEN DeleteResult(0, "deleted", subscription.id, d.store)
           ELSE DeleteResult(1, "delete_failed", subscription.id, d.store)

----------------------------------------------------------------------------
(* Calendar dates                                                          *)

Date(y, m, d) == y * 10000 + m * 100 + d
YearOf(d) == d \div 10000
MonthOf(d) == (d \div 100) % 100
DayOf(d) == d % 100

IsLeap(y) == (y % 4 = 0 /\ y % 100 # 0) \/ y % 400 = 0

\* calendar.monthrange(year, month)[1]
DaysInMonth(y, m) ==
  IF m = 2 THEN (IF IsLeap(y) THEN 29 ELSE 28)
  ELSE IF m \in {4, 6, 9, 11} THEN 30 ELSE 31

\* a day past the end of the month runs over into the next month
NormaliseDay(y, m, d, len) ==
  IF d <= len THEN Date(y, m, d)
  ELSE IF m = 12 THEN Date(y + 1, 1, d - len)
  ELSE Date(y, m + 1, d - len)

\* SQLite DATE(d, '+n month'): the month is advanced, then the day normalised
SqliteAddMonths(d, n) ==
  LET t == MonthOf(d) - 1 + n
  IN NormaliseDay(YearOf(d) + (t \div 12), (t % 12) + 1, DayOf(d),
                  DaysInMonth(YearOf(d) + (t \div 12), (t % 12) + 1))

\* calendar.month_name[month] is defined for the indices of a 13-item list
MonthNameDefined(month) == month \in -13..12

----------------------------------------------------------------------------
(* The budgets table: DatabaseManager.set_budget, get_budgets              *)

\* WHERE year = ? AND month = ? AND currency = ?  (NULL equals nothing)
BudgetKeyMatches_nocurrency(row, year, month, currency) ==
  row.year = year /\ row.month = month

BudgetKeyMatches(row, year, month, currency) ==
  row.year = year /\ row.month = month
  /\ currency # NoneStr /\ row.currency = currency

\* INSERT INTO budgets: every column of a budget row is required
InsertBudget(table, row) ==
  IF row.currency = NoneStr
  THEN [table |-> table, exc |-> "IntegrityError"]
  ELSE [table |-> Append(table, row), exc |-> NoExc]

\* the connection context manager commits on return, rolls back on raise
DatabaseManager_set_budget(table, year, month, currency, amount) ==
  IF amount <= 0
  THEN [table |-> table, is_new |-> FALSE, exc |-> "ValueError"]
  ELSE
    LET existing ==
          {i \in DOMAIN table : BudgetKeyMatches(table[i], year, month, currency)}
    IN IF existing # {}
       THEN [table |->
               [i \in DOMAIN table |->
                  IF BudgetKeyMatches(table[i], year, month, currency)
                  THEN [table[i] EXCEPT !.amount = amount]
                  ELSE table[i]],
             is_new |-> FALSE, exc |-> NoExc]
       ELSE
         LET ins == InsertBudget(table, [year |-> year, month |-> month,
                                         currency |-> currency, amount |-> amount])
         IN [table |-> ins.table, is_new |-> ins.exc = NoExc, exc |-> ins.exc]

\* ORDER BY ... currency ASC on the codes that occur
CurrencyRank(c) ==
  CASE c = "EUR" -> 1 [] c = "INR" -> 2 [] c = "USD" -> 3 [] c = "XYZ" -> 4
    [] OTHER -> 5

BudgetBefore(a, b) ==
  \/ a.year > b.year
  \/ a.year = b.year /\ a.month > b.month
  \/ a.year = b.year /\ a.month = b.month
     /\ CurrencyRank(a.currency) < CurrencyRank(b.currency)

RECURSIVE SortBudgets(_)
SortBudgets(rows) ==
  IF rows = {} THEN <<>>
  ELSE LET first == CHOOSE r \in rows : \A q \in rows \ {r} : BudgetBefore(r, q)
       IN <<first>> \o SortBudgets(rows \ {first})

\* get_budgets: the filtered rows, ORDER BY year DESC, month DESC, currency ASC
get_budgets(table, year, month, currency) ==
  SortBudgets({table[i] : i \in
    {j \in DOMAIN table :
       /\ year = NoneInt \/ table[j].year = year
       /\ month = NoneInt \/ table[j].month = month
       /\ currency = NoneStr \/ table[j].currency = currency}})

----------------------------------------------------------------------------
(* DatabaseManager.get_subscription_costs_by_budget_period                 *)

\* whether a occurs in b, for the tags that occur
IsSubstring(a, b) == a = b \/ (a = "work" /\ b = "network")
\* s.tags LIKE '%tag%' on the comma-joined tags: LIKE ignores the case of
\* ASCII letters
TagsLike(tags, tag) == \E t \in tags : IsSubstring(Lower(tag), Lower(t))

\* the WHERE clause; start_date, renewal_date and billing_cycle are NOT NULL
BudgetPeriodWhere(s, first_day, last_day, currency) ==
  /\ s.currency = currency
  /\ s.status # "cancelled"
  /\ s.start_date <= last_day
  /\ \/ (s.renewal_date >= first_day /\ s.renewal_date <= last_day)
     \/ /\ s.start_date <= last_day
        /\ \/ s.billing_cycle = "monthly"
              /\ SqliteAddMonths(s.renewal_date, 1) >= first_day
           \/ s.billing_cycle = "quarterly"
              /\ SqliteAddMonths(s.renewal_date, 3) >= first_day
           \/ s.billing_cycle = "annually"
              /\ SqliteAddMonths(s.renewal_date, 12) >= first_day
           \/ s.billing_cycle = "semi-annually"
              /\ SqliteAddMonths(s.renewal_date, 6) >= first_day

RECURSIVE SumCost(_)
SumCost(rows) ==
  IF rows = {} THEN 0
  ELSE LET r == CHOOSE x \in rows : TRUE
       IN r.cost + SumCost(rows \ {r})

\* the entries of the returned dictionary for one currency: the summed cost,
\* the count, and the rows counted (by id, for their names)
CurrencyCosts(subscriptions) ==
  [cost |-> SumCost(subscriptions),
   count |-> Cardinality(subscriptions),
   details |-> Ids(subscriptions)]

get_subscription_costs_by_budget_period(store, year, month, currency, tag, payment_method) ==
  CurrencyCosts(
    {s \in store :
       /\ BudgetPeriodWhere(s, Date(year, month, 1),
                            Date(year, month, DaysInMonth(year, month)), currency)
       /\ tag = NoneStr \/ TagsLike(s.tags, tag)
       /\ payment_method = NoneStr \/ s.payment_method = payment_method})

----------------------------------------------------------------------------
(* Python float arithmetic (IEEE 754 binary64, round to nearest, ties to   *)
(* even) on the amounts of money.  A natural number of any size is a       *)
(* sequence of limbs, least significant first, without leading zeros; a    *)
(* float is [m, e] standing for m * 2^e, with m of at most 53 bits.        *)

Base == 32768
LimbBits == 15
MantissaBits == 53

RECURSIVE Pow2(_)
Pow2(n) == IF n = 0 THEN 1 ELSE 2 * Pow2(n - 1)

RECURSIVE IntBitLen(_)
IntBitLen(x) == IF x = 0 THEN 0 ELSE 1 + IntBitLen(x \div 2)

RECURSIVE BigOfInt(_)
BigOfInt(n) == IF n = 0 THEN <<>> ELSE <<n % Base>> \o BigOfInt(n \div Base)

RECURSIVE BigTrim(_)
BigTrim(a) ==
  IF a = <<>> THEN a
  ELSE IF a[Len(a)] = 0 THEN BigTrim(SubSeq(a, 1, Len(a) - 1)) ELSE a

Limb(a, i) == IF i >= 1 /\ i <= Len(a) THEN a[i] ELSE 0
Rest(a) == IF a = <<>> THEN a ELSE Tail(a)
Zeros(j) == [i \in 1..j |-> 0]
LimbShift(a, j) == IF a = <<>> THEN a ELSE Zeros(j) \o a

RECURSIVE AddCarry(_, _, _)
AddCarry(a, b, c) ==
  IF a = <<>> /\ b = <<>> THEN (IF c = 0 THEN <<>> ELSE <<c>>)
  ELSE <<(Limb(a, 1) + Limb(b, 1) + c) % Base>>
       \o AddCarry(Rest(a), Rest(b), (Limb(a, 1) + Limb(b, 1) + c) \div Base)

BigAdd(a, b) == AddCarry(a, b, 0)

\* a - b - c for a >= b + c
RECURSIVE SubBorrow(_, _, _)
SubBorrow(a, b, c) ==
  IF a = <<>> THEN <<>>
  ELSE IF Limb(a, 1) - Limb(b, 1) - c < 0
  THEN <<Limb(a, 1) - Limb(b, 1) - c + Base>> \o SubBorrow(Rest(a), Rest(b), 1)
  ELSE <<Limb(a, 1) - Limb(b, 1) - c>> \o SubBorrow(Rest(a), Rest(b), 0)

BigSub(a, b) == BigTrim(SubBorrow(a, b, 0))

RECURSIVE CmpFrom(_, _, _)
CmpFrom(a, b, i) ==
  IF i = 0 THEN 0
  ELSE IF a[i] > b[i] THEN 1
  ELSE IF a[i] < b[i] THEN -1
  ELSE CmpFrom(a, b, i - 1)

\* -1, 0 or 1 as a < b, a = b or a > b
BigCmp(a, b) ==
  IF Len(a) > Len(b) THEN 1
  ELSE IF Len(a) < Len(b) THEN -1
  ELSE CmpFrom(a, b, Len(a))

\* a * k + c for 0 <= k < Base
RECURSIVE MulCarry(_, _, _)
MulCarry(a, k, c) ==
  IF a = <<>> THEN (IF c = 0 THEN <<>> ELSE <<c>>)
  ELSE <<(a[1] * k + c) % Base>> \o MulCarry(Tail(a), k, (a[1] * k + c) \div Base)

BigMulSmall(a, k) == IF k = 0 THEN <<>> ELSE MulCarry(a, k, 0)

AppendDigit(qr, d) == [q |-> Append(qr.q, d), r |-> qr.r]

\* the limbs i..1 of a, with the remainder r carried in, divided by k
RECURSIVE DivSmallFrom(_, _, _, _)
DivSmallFrom(a, k, i, r) ==
  IF i = 0 THEN [q |-> <<>>, r |-> r]
  ELSE AppendDigit(DivSmallFrom(a, k, i - 1, (r * Base + a[i]) % k),
                   (r * Base + a[i]) \div k)

TrimQuotient(qr) == [q |-> BigTrim(qr.q), r |-> qr.r]

\* quotient and remainder of a by k, 0 < k < Base
BigDivSmall(a, k) == TrimQuotient(DivSmallFrom(a, k, Len(a), 0))

BigShl(a, n) == BigMulSmall(LimbShift(a, n \div LimbBits), Pow2(n % LimbBits))

BigShr(a, n) ==
  BigDivSmall(SubSeq(a, (n \div LimbBits) + 1, Len(a)), Pow2(n % LimbBits)).q

BigBitLen(a) ==
  IF a = <<>> THEN 0 ELSE LimbBits * (Len(a) - 1) + IntBitLen(a[Len(a)])

BigIsOdd(a) == a # <<>> /\ a[1] % 2 = 1

\* the estimate of a quotient digit is lowered until digit * d fits into r
RECURSIVE FixDigit(_, _, _, _)
FixDigit(r, digit, product, d) ==
  IF BigCmp(product, r) > 0
  THEN FixDigit(r, digit - 1, BigSub(product, d), d)
  ELSE [r |-> BigSub(r, product), digit |-> digit]

Min(x, y) == IF x < y THEN x ELSE y

DivStepWith(r, d, j, estimate) ==
  FixDigit(r, estimate, LimbShift(BigMulSmall(d, estimate), j - 1),
           LimbShift(d, j - 1))

\* the quotient digit at limb j of r by d (d with its top bit set), and the
\* remainder left
DivStep(r, d, j) ==
  DivStepWith(r, d, j,
              Min(Base - 1,
                  (Limb(r, j + Len(d)) * Base + Limb(r, j + Len(d) - 1))
                    \div d[Len(d)]))

\* long division of r by d: the quotient digits j..1 and the remainder
RECURSIVE DivDigits(_, _, _)
DivAfter(step, d, j) == AppendDigit(DivDigits(step.r, d, j - 1), step.digit)

DivDigits(r, d, j) ==
  IF j = 0 THEN [q |-> <<>>, r |-> r]
  ELSE DivAfter(DivStep(r, d, j), d, j)

DivNormalised(a, d) ==
  TrimQuotient(DivDigits(a, d, IF Len(a) < Len(d) THEN 0
                               ELSE Len(a) - Len(d) + 1))

Inexact(qr) == [q |-> qr.q, inexact |-> qr.r # <<>>]
InexactSmall(qr) == [q |-> qr.q, inexact |-> qr.r # 0]

\* a and b shifted by s bits, so that b has its top bit set, and divided
BigDivShifted(a, b, s) == Inexact(DivNormalised(BigShl(a, s), BigShl(b, s)))

\* quotient of a by b > 0, and whether the division left a remainder
BigDiv(a, b) ==
  IF Len(b) = 1 THEN InexactSmall(BigDivSmall(a, b[1]))
  ELSE BigDivShifted(a, b, LimbBits - IntBitLen(b[Len(b)]))

FloatZero == [m |-> <<>>, e |-> 0]

RoundsUp(cmp, sticky, odd) == cmp > 0 \/ (cmp = 0 /\ (sticky \/ odd))

RoundedUp(m, up, e) == [m |-> IF up THEN BigAdd(m, <<1>>) ELSE m, e |-> e]

\* the d low bits of q rounded away: m is q without them
RoundCut(q, m, sticky, e, d) ==
  RoundedUp(m,
            RoundsUp(BigCmp(BigSub(q, BigShl(m, d)), BigShl(<<1>>, d - 1)),
                     sticky, BigIsOdd(m)),
            e + d)

RoundBits(q, sticky, e, d) ==
  IF d <= 0 THEN [m |-> q, e |-> e]
  ELSE RoundCut(q, BigShr(q, d), sticky, e, d)

\* the float nearest to q * 2^e (plus a fraction of 2^e when sticky)
FloatRound(q, sticky, e) == RoundBits(q, sticky, e, BigBitLen(q) - MantissaBits)

FloatQuotient(qi, e) == FloatRound(qi.q, qi.inexact, e)

\* float("U.CC") for an amount of n cents
FloatOfCents(n) ==
  IF n = 0 THEN FloatZero
  ELSE FloatQuotient(BigDiv(BigShl(BigOfInt(n), 60), <<100>>), -60)

FloatAddAligned(x, y, e) ==
  FloatRound(BigAdd(BigShl(x.m, x.e - e), BigShl(y.m, y.e - e)), FALSE, e)

\* x + y
FloatAdd(x, y) ==
  IF x.m = <<>> THEN y
  ELSE IF y.m = <<>> THEN x
  ELSE FloatAddAligned(x, y, Min(x.e, y.e))

FloatDivShifted(x, y, s) ==
  FloatQuotient(BigDiv(BigShl(x.m, s), y.m), x.e - y.e - s)

\* x / y for y # 0
FloatDiv(x, y) ==
  IF x.m = <<>> THEN FloatZero
  ELSE FloatDivShifted(x, y, MantissaBits + 2 + BigBitLen(y.m) - BigBitLen(x.m))

\* x * k for an integer 0 < k < Base
FloatMulInt(x, k) == FloatRound(BigMulSmall(x.m, k), FALSE, x.e)

\* a * b on limbs
RECURSIVE BigMul(_, _)
BigMul(a, b) ==
  IF b = <<>> \/ a = <<>> THEN <<>>
  ELSE BigAdd(BigMulSmall(a, b[1]), LimbShift(BigMul(a, Tail(b)), 1))

\* x * y
FloatMul(x, y) ==
  IF x.m = <<>> \/ y.m = <<>> THEN FloatZero
  ELSE FloatRound(BigMul(x.m, y.m), FALSE, x.e + y.e)

\* -1, 0 or 1 as x < y, x = y or x > y
FloatCmpAligned(x, y, e) == BigCmp(BigShl(x.m, x.e - e), BigShl(y.m, y.e - e))
FloatCmp(x, y) == FloatCmpAligned(x, y, Min(x.e, y.e))

FloatOfInt(k) == [m |-> BigOfInt(k), e |-> 0]

----------------------------------------------------------------------------
(* BudgetCommand                                                           *)

\* EXCHANGE_RATES, in ten-thousandths of a US dollar per unit
EXCHANGE_RATES ==
  [USD |-> 10000, EUR |-> 11000, INR |-> 120, GBP |-> 12800,
   CAD |-> 7400, AUD |-> 6700, JPY |-> 71]

RateScale == 10000

\* round(n / d, 0) for n >= 0, d > 0: to nearest, a tie to the even neighbour
RoundHalfEven(n, d) ==
  LET q == n \div d
      r == n % d
  IN IF 2 * r < d THEN q
     ELSE IF 2 * r > d THEN q + 1
     ELSE IF q % 2 = 0 THEN q ELSE q + 1

\* mutant: the currencies are looked up before they are compared
Budget_convert_currency_lookup(amount, from_currency, to_currency, exchange_rates) ==
  IF from_currency \notin DOMAIN exchange_rates
       \/ to_currency \notin DOMAIN exchange_rates
  THEN [ok |-> FALSE, amount |-> 0]
  ELSE IF from_currency = to_currency THEN [ok |-> TRUE, amount |-> amount]
  ELSE [ok |-> TRUE,
        amount |-> RoundHalfEven(amount * exchange_rates[from_currency],
                                 exchange_rates[to_currency])]

\* BudgetCommand._convert_currency on cents; ok is FALSE for the ValueError
Budget_convert_currency(amount, from_currency, to_currency, exchange_rates) ==
  IF from_currency = to_currency THEN [ok |-> TRUE, amount |-> amount]
  ELSE IF from_currency \notin DOMAIN exchange_rates
          \/ to_currency \notin DOMAIN exchange_rates
  THEN [ok |-> FALSE, amount |-> 0]
  ELSE IF to_currency = "USD"
  THEN [ok |-> TRUE,
        amount |-> RoundHalfEven(amount * exchange_rates[from_currency], RateScale)]
  ELSE [ok |-> TRUE,
        amount |-> RoundHalfEven(amount * exchange_rates[from_currency],
                                 exchange_rates[to_currency])]

\* mutant: the fraction used is not scaled to a percentage
PercentUsed_fraction(utilized, budget_amount) ==
  IF budget_amount > 0
  THEN [num |-> utilized, den |-> budget_amount]
  ELSE [num |-> 0, den |-> 1]

\* (utilized / budget_amount) * 100 if budget_amount > 0 else 0, as the
\* rational num / den
PercentUsed(utilized, budget_amount) ==
  IF budget_amount > 0
  THEN [num |-> utilized * 100, den |-> budget_amount]
  ELSE [num |-> 0, den |-> 1]

\* costs_by_currency[sub_currency] += monthly_cost, over the costs fetched
RECURSIVE FloatSum(_)
FloatSum(costs) ==
  IF costs = <<>> THEN FloatZero
  ELSE FloatAdd(FloatSum(SubSeq(costs, 1, Len(costs) - 1)),
                FloatOfCents(costs[Len(costs)]))

\* (utilized / budget_amount) * 100 if budget_amount > 0 else 0, in floats
PercentUsedFloat(utilized, budget_amount) ==
  IF FloatCmp(budget_amount, FloatZero) > 0
  THEN FloatMulInt(FloatDiv(utilized, budget_amount), 100)
  ELSE FloatZero

\* remaining = budget_amount - utilized; remaining < 0.  A difference of
\* floats is negative exactly when the first is the smaller one
IsOverspent(utilized, budget_amount) == FloatCmp(budget_amount, utilized) < 0

\* percent_used > 90.0 and percent_used <= 100.0
IsAtRisk(percent_used) ==
  /\ FloatCmp(percent_used, FloatOfInt(90)) > 0
  /\ FloatCmp(percent_used, FloatOfInt(100)) <= 0

RiskLabel(is_overspent, is_at_risk) ==
  IF is_overspent THEN "OVER" ELSE IF is_at_risk THEN "RISK" ELSE "OK"

\* the risk class of a row, from the floats the view holds
FloatStatus(utilized, budget_amount) ==
  RiskLabel(IsOverspent(utilized, budget_amount),
            IsAtRisk(PercentUsedFloat(utilized, budget_amount)))

\* the risk class of a budget of budget_amount cents against subscriptions
\* of the given costs in cents, in the order they are fetched
BudgetStatus(budget_amount, costs) ==
  FloatStatus(FloatSum(costs), FloatOfCents(budget_amount))

\* one row of table_data, from the budget and the costs found for it; its
\* status column is BudgetStatus of the amount and the costs fetched
RowOfCosts(budget, costs) ==
  [year |-> budget.year, month |-> budget.month,
   currency |-> budget.currency, budget |-> budget.amount,
   utilized |-> costs.cost, remaining |-> budget.amount - costs.cost,
   percent_used |-> PercentUsed(costs.cost, budget.amount),
   count |-> costs.count, details |-> costs.details]

\* one row of table_data in view_budgets
BudgetRow(store, budget, tag, payment_method) ==
  RowOfCosts(budget,
             get_subscription_costs_by_budget_period(
               store, budget.year, budget.month, budget.currency,
               tag, payment_method))

\* what one row adds to the totals in the base currency; a row whose
\* conversion raises ValueError is skipped
RowBase(row, base_currency, rates) ==
  LET budget_base ==
        Budget_convert_currency(row.budget, row.currency, base_currency, rates)
      utilized_base ==
        Budget_convert_currency(row.utilized, row.currency, base_currency, rates)
  IN IF budget_base.ok /\ utilized_base.ok
     THEN [budget |-> budget_base.amount, utilized |-> utilized_base.amount]
     ELSE [budget |-> 0, utilized |-> 0]

AddTotals(a, b) ==
  [budget |-> a.budget + b.budget, utilized |-> a.utilized + b.utilized]

\* the totals in the base currency
RECURSIVE TotalsBase(_, _, _)
TotalsBase(rows, base_currency, rates) ==
  IF rows = <<>> THEN [budget |-> 0, utilized |-> 0]
  ELSE AddTotals(RowBase(Head(rows), base_currency, rates),
                 TotalsBase(Tail(rows), base_currency, rates))

\* the TOTAL line
TotalLine(totals) ==
  [budget |-> totals.budget, utilized |-> totals.utilized,
   remaining |-> totals.budget - totals.utilized,
   percent_used |-> PercentUsed(totals.utilized, totals.budget)]

\* the --detailed section: one entry per budget, from the costs of its
\* period fetched without tag and payment method
DetailedSection(store, found) ==
  [i \in DOMAIN found |-> BudgetRow(store, found[i], NoneStr, NoneStr)]

\* what the view prints for the budgets found, as data
ViewFound(store, found, base, tag, payment_method, detailed) ==
  IF found = <<>>
  THEN [kind |-> "no_budgets"]
  ELSE [kind |-> "budgets",
        rows |-> [i \in DOMAIN found |->
                    BudgetRow(store, found[i], tag, payment_method)],
        detailed |-> IF detailed THEN DetailedSection(store, found) ELSE <<>>,
        base_currency |-> base,
        total |-> TotalLine(TotalsBase(
                    [i \in DOMAIN found |->
                       BudgetRow(store, found[i], tag, payment_method)],
                    base, EXCHANGE_RATES))]

\* BudgetCommand.view_budgets
view_budgets(store, table, year, month, currency, detailed, base_currency, tag, payment_method) ==
  ViewFound(store, get_budgets(table, year, month, currency),
            IF base_currency = NoneStr THEN "USD" ELSE base_currency,
            tag, payment_method, detailed)

\* str.upper() on the currency codes that occur
Upper(c) ==
  CASE c = "eur" -> "EUR" [] c = "usd" -> "USD" [] c = "inr" -> "INR"
    [] c = "xyz" -> "XYZ"
    [] OTHER -> c

\* BudgetCommand.validate_args: the verdict, and the two changes it makes to
\* args (base_currency upper-cased; rate_overrides attached at the end only)
validate_args(args) ==
  IF args.month # NoneInt /\ (args.month < 1 \/ args.month > 12)
  THEN [ok |-> FALSE, rate_overrides |-> FALSE, base_currency |-> args.base_currency]
  ELSE IF args.year # NoneInt
          /\ (args.year < 2000 \/ args.year > CurrentYear + 10)
  THEN [ok |-> FALSE, rate_overrides |-> FALSE, base_currency |-> args.base_currency]
  ELSE IF args.set # NoneInt /\ args.set # 0 /\ args.set <= 0
  THEN [ok |-> FALSE, rate_overrides |-> FALSE, base_currency |-> args.base_currency]
  ELSE IF args.set # NoneInt /\ args.set # 0 /\ args.currency = NoneStr
  THEN [ok |-> FALSE, rate_overrides |-> FALSE, base_currency |-> args.base_currency]
  ELSE IF args.base_currency # NoneStr
          /\ Upper(args.base_currency) \notin {"USD", "EUR", "INR"}
  THEN [ok |-> FALSE, rate_overrides |-> FALSE, base_currency |-> args.base_currency]
  ELSE [ok |-> TRUE, rate_overrides |-> TRUE,
        base_currency |-> IF args.base_currency = NoneStr THEN NoneStr
                          ELSE Upper(args.base_currency)]

\* BudgetCommand.set_budget: only a ValueError of the storage call is caught
BudgetCommand_set_budget(table, year, month, currency, amount) ==
  LET r == DatabaseManager_set_budget(table, year, month, currency, amount)
  IN IF r.exc = "ValueError"
     THEN [table |-> r.table, exc |-> NoExc, wrote |-> FALSE, is_new |-> FALSE]
     ELSE IF r.exc # NoExc
     THEN [table |-> r.table, exc |-> r.exc, wrote |-> FALSE, is_new |-> FALSE]
     ELSE IF ~MonthNameDefined(month)
     THEN [table |-> r.table, exc |-> "IndexError", wrote |-> TRUE, is_new |-> r.is_new]
     ELSE [table |-> r.table, exc |-> NoExc, wrote |-> TRUE, is_new |-> r.is_new]

NoReport == [kind |-> "none"]

\* BudgetCommand.execute: the result of validate_args is not looked at, and
\* no path returns a value
BudgetCommand_execute(store, table, args) ==
  LET v == validate_args(args)
      year == IF args.year # NoneInt THEN args.year ELSE CurrentYear
      month == IF args.month # NoneInt THEN args.month ELSE CurrentMonth
  IN IF args.set # NoneInt /\ args.set # 0
     THEN LET r == BudgetCommand_set_budget(table, year, month, args.currency, args.set)
          IN [table |-> r.table, ret |-> RetNone, exc |-> r.exc,
              wrote |-> r.wrote, is_new |-> r.is_new,
              year |-> year, month |-> month, report |-> NoReport]
     ELSE IF args.view
     THEN IF ~v.rate_overrides
          THEN [table |-> table, ret |-> RetNone, exc |-> "AttributeError",
                wrote |-> FALSE, is_new |-> FALSE,
                year |-> year, month |-> month, report |-> NoReport]
          ELSE [table |-> table, ret |-> RetNone, exc |-> NoExc,
                wrote |-> FALSE, is_new |-> FALSE,
                year |-> year, month |-> month,
                report |-> view_budgets(store, table, year, month, args.currency,
                                        args.detailed, v.base_currency,
                                        args.tag, args.payment_method)]
     ELSE [table |-> table, ret |-> RetNone, exc |-> NoExc,
           wrote |-> FALSE, is_new |-> FALSE,
           year |-> year, month |-> month, report |-> NoReport]

----------------------------------------------------------------------------
(* Inputs of the specification Spec                                        *)

Names == {"Netflix", "netflix", "Hulu"}
ArgNames == {NoneStr, "NETFLIX", "hulu"}
ArgIds == {NoneInt, 1, 2, 9}

DefaultFields ==
  [name |-> "Netflix", parent_subscription_id |-> NoParent,
   status |-> "active", currency |-> "USD", cost |-> 1500,
   billing_cycle |-> "monthly", start_date |-> 20240101,
   renewal_date |-> 20240201, payment_method |-> NoneStr, tags |-> {}]

\* rows that differ in name and parent only
LinkedFields(store) ==
  {[DefaultFields EXCEPT !.name = n, !.parent_subscription_id = p] :
     n \in Names, p \in {NoParent} \cup Ids(store)}

DeleteArgs ==
  [name : ArgNames, id : ArgIds,
   dry_run : BOOLEAN, force : BOOLEAN, confirm : BOOLEAN]

----------------------------------------------------------------------------
(* Actions                                                                 *)

Idle == [cmd |-> "none"]

Init ==
  /\ subs = {}
  /\ budgets = <<>>
  /\ COMMANDS = RegisterAll({}, ImportedModules)
  /\ db_manager = DatabaseManager
  /\ op = Idle
  /\ report = NoReport

\* a subscription row is stored
StoreInsert(f) ==
  /\ Cardinality(subs) < MaxSubs
  /\ NextRowId(subs) <= MaxId
  /\ subs' = subs \cup {NewRow(subs, f)}
  /\ op' = [cmd |-> "insert", id |-> NextRowId(subs)]
  /\ report' = NoReport
  /\ UNCHANGED <<budgets, COMMANDS, db_manager>>

\* renewalradar delete ...
Delete(args) ==
  LET r == DeleteCommand_execute(subs, args)
  IN /\ subs' = r.store
     /\ op' = [cmd |-> "delete", args |-> args, ret |-> r.ret, exc |-> NoExc,
               outcome |-> r.outcome, target |-> r.target]
     /\ report' = NoReport
     /\ UNCHANGED <<budgets, COMMANDS, db_manager>>

\* cli.main: parse the command name, look it up, dispatch
main(command) ==
  LET choices == COMMANDS
      outcome ==
        IF command = NoneStr THEN "help"
        ELSE IF command \notin choices THEN "invalid_choice"
        ELSE IF command \notin COMMANDS THEN "unknown_command"
        ELSE "dispatched"
  IN /\ op' = [cmd |-> "main", command |-> command, outcome |-> outcome]
     /\ report' = NoReport
     /\ UNCHANGED <<subs, budgets, COMMANDS, db_manager>>

\* renewalradar budget ...; a set that needs a new row waits for room
Budget(args) ==
  LET r == BudgetCommand_execute(subs, budgets, args)
  IN /\ Len(r.table) <= MaxBudgets
     /\ budgets' = r.table
     /\ op' = [cmd |-> "budget", args |-> args, ret |-> r.ret, exc |-> r.exc,
               wrote |-> r.wrote, is_new |-> r.is_new,
               year |-> r.year, month |-> r.month]
     /\ report' = r.report
     /\ UNCHANGED <<subs, COMMANDS, db_manager>>

Next ==
  \/ \E f \in LinkedFields(subs) : StoreInsert(f)
  \/ \E args \in DeleteArgs : Delete(args)
  \/ \E c \in CommandSurface \cup {NoneStr, "bogus"} : main(c)

Spec == Init /\ [][Next]_vars

----------------------------------------------------------------------------
(* The specification SpecBudget: budget commands on the budgets table      *)

BudgetArgs(sets, views, currencies, periods, bases) ==
  {[set |-> a, view |-> w, currency |-> c, year |-> p[1], month |-> p[2],
    tag |-> NoneStr, payment_method |-> NoneStr, detailed |-> FALSE,
    base_currency |-> b] :
     a \in sets, w \in views, c \in currencies, p \in periods, b \in bases}

\* --set AMOUNT with a negative, zero and two positive amounts; a missing and
\* an unlisted currency; a year before 2000 and a month past December
SetArgs ==
  BudgetArgs({-500, 0, 5000, 10000}, {FALSE}, {NoneStr, "USD", "XYZ"},
             {<<NoneInt, NoneInt>>, <<NoneInt, 13>>, <<1999, NoneInt>>},
             {NoneStr})

\* --view with and without a currency filter, and with an unlisted base
\* currency
ViewArgs ==
  BudgetArgs({NoneInt}, {TRUE}, {NoneStr, "USD"},
             {<<NoneInt, NoneInt>>, <<NoneInt, 13>>},
             {NoneStr, "chf"})

NextBudget == \E args \in SetArgs \cup ViewArgs : Budget(args)

SpecBudget == Init /\ [][NextBudget]_vars

----------------------------------------------------------------------------
(* The specification SpecBudgetView: budgets viewed against subscriptions  *)

Sub(currency, status, cycle, start, renewal, cost) ==
  [DefaultFields EXCEPT !.currency = currency, !.status = status,
                        !.billing_cycle = cycle, !.start_date = start,
                        !.renewal_date = renewal, !.cost = cost]

\* subscriptions around February 2024: renewing within the month, renewed
\* before it, cancelled, in another currency, starting after it, lapsed, and
\* one of each longer cycle whose next renewal lies ahead
PeriodFields ==
  {Sub("USD", "active", "monthly", 20240115, 20240215, 4000),
   Sub("USD", "active", "monthly", 20230715, 20240115, 5000),
   Sub("USD", "cancelled", "monthly", 20240115, 20240215, 6000),
   Sub("XYZ", "active", "monthly", 20240115, 20240215, 6000),
   Sub("USD", "active", "monthly", 20240301, 20240401, 5000),
   Sub("USD", "trial", "monthly", 20230715, 20230815, 6000),
   Sub("USD", "active", "quarterly", 20230915, 20231215, 6000),
   Sub("USD", "active", "annual", 20230115, 20240115, 5000),
   Sub("USD", "active", "biannual", 20230315, 20230915, 6000)}

PeriodSetArgs ==
  BudgetArgs({10000}, {FALSE}, {"USD", "XYZ"}, {<<NoneInt, NoneInt>>}, {NoneStr})
  \cup BudgetArgs({4000}, {FALSE}, {"USD"}, {<<NoneInt, NoneInt>>}, {NoneStr})

PeriodViewArgs ==
  BudgetArgs({NoneInt}, {TRUE}, {NoneStr}, {<<NoneInt, NoneInt>>}, {NoneStr})
  \cup BudgetArgs({NoneInt}, {TRUE}, {"USD"}, {<<NoneInt, NoneInt>>}, {"eur"})

NextBudgetView ==
  \/ \E f \in PeriodFields : StoreInsert(f)
  \/ \E args \in PeriodSetArgs \cup PeriodViewArgs : Budget(args)

SpecBudgetView == Init /\ [][NextBudgetView]_vars

----------------------------------------------------------------------------
(* The specification SpecBudgetFilter: budget view --tag, --payment-method *)

Tagged(tags, payment_method, cost) ==
  [DefaultFields EXCEPT !.tags = tags, !.payment_method = payment_method,
                        !.cost = cost, !.start_date = 20240115,
                        !.renewal_date = 20240215]

\* monthly subscriptions renewing in February 2024 that differ in tags and
\* payment method
FilterFields ==
  {Tagged({"work"}, "card", 4000),
   Tagged({"network"}, "card", 3000),
   Tagged({"fun"}, "paypal", 2000),
   Tagged({}, NoneStr, 1000)}

FilterSetArgs ==
  BudgetArgs({10000}, {FALSE}, {"USD"}, {<<NoneInt, NoneInt>>}, {NoneStr})

FilterViewArgs ==
  [set : {NoneInt}, view : {TRUE}, currency : {NoneStr},
   year : {NoneInt}, month : {NoneInt},
   tag : {NoneStr, "work"}, payment_method : {NoneStr, "card"},
   detailed : BOOLEAN, base_currency : {NoneStr}]

NextBudgetFilter ==
  \/ \E f \in FilterFields : StoreInsert(f)
  \/ \E args \in FilterSetArgs \cup FilterViewArgs : Budget(args)

SpecBudgetFilter == Init /\ [][NextBudgetFilter]_vars

----------------------------------------------------------------------------
(* The specification SpecRisk: the risk class of one budget row            *)

MaxCosts == 2

\* budget amounts and subscription costs in cents, among them pairs at
\* exactly 90% and at exactly 100%
RiskAmounts == {30, 120, 10000}
RiskCosts == {10, 20, 27, 108, 9000, 9001, 10000, 10001}

CostLists == UNION {[1..n -> RiskCosts] : n \in 0..MaxCosts}

\* a budget of budget_amount whose period has subscriptions of these costs
InitRisk ==
  /\ subs = {}
  /\ budgets = <<>>
  /\ COMMANDS = RegisterAll({}, ImportedModules)
  /\ db_manager = DatabaseManager
  /\ op \in [cmd : {"risk"}, budget_amount : RiskAmounts, costs : CostLists]
  /\ report = NoReport

\* one pass of the loop over budgets in view_budgets
RiskRow ==
  /\ op.cmd = "risk"
  /\ report = NoReport
  /\ report' = [kind |-> "risk",
                status |-> BudgetStatus(op.budget_amount, op.costs)]
  /\ UNCHANGED <<subs, budgets, COMMANDS, db_manager, op>>

NextRisk == RiskRow

SpecRisk == InitRisk /\ [][NextRisk]_vars

----------------------------------------------------------------------------
(* Cost totals of the summary and view commands, and the specification     *)
(* SpecTotals: what one subscription adds to the monthly and annual totals *)

\* Subscription.annual_cost: cost * multipliers.get(billing_cycle, 0)
multipliers == [monthly |-> 12, quarterly |-> 4, biannual |-> 2, annual |-> 1]

annual_cost(cost, billing_cycle) ==
  FloatMulInt(cost, IF billing_cycle \in DOMAIN multipliers
                    THEN multipliers[billing_cycle] ELSE 0)

\* SummaryCommand._display_overall_summary: the term of a subscription in
\* total_cost
SummaryTerm(cost, billing_cycle, period) ==
  IF period = "monthly" THEN cost ELSE annual_cost(cost, billing_cycle)

\* ViewCommand._display_summary: what a subscription adds to monthly_totals
ViewMonthlyTerm(cost, billing_cycle) ==
  IF billing_cycle = "monthly" THEN cost
  ELSE IF billing_cycle = "yearly" THEN FloatDiv(cost, FloatOfInt(12))
  ELSE FloatZero

\* ViewCommand._display_summary: what a subscription adds to yearly_totals
ViewYearlyTerm(cost, billing_cycle) ==
  IF billing_cycle = "monthly" THEN FloatMulInt(cost, 12)
  ELSE IF billing_cycle = "yearly" THEN cost
  ELSE FloatZero

BillingCycles == {"monthly", "quarterly", "biannual", "annual", "yearly"}

\* costs in cents
CostSamples ==
  {1, 10, 99, 100, 999, 1000, 1099, 1200, 1500, 1999, 2500, 4999, 5000,
   9999, 10000, 12000, 15000, 19999, 25000, 99999}

InitTotals ==
  /\ subs = {}
  /\ budgets = <<>>
  /\ COMMANDS = RegisterAll({}, ImportedModules)
  /\ db_manager = DatabaseManager
  /\ op \in [cmd : {"totals"}, cost : CostSamples, billing_cycle : BillingCycles]
  /\ report = NoReport

CostTotals ==
  /\ op.cmd = "totals"
  /\ report = NoReport
  /\ report' =
       [kind |-> "totals",
        summary_monthly |->
          SummaryTerm(FloatOfCents(op.cost), op.billing_cycle, "monthly"),
        summary_annual |->
          SummaryTerm(FloatOfCents(op.cost), op.billing_cycle, "annual"),
        view_monthly |-> ViewMonthlyTerm(FloatOfCents(op.cost), op.billing_cycle),
        view_yearly |-> ViewYearlyTerm(FloatOfCents(op.cost), op.billing_cycle)]
  /\ UNCHANGED <<subs, budgets, COMMANDS, db_manager, op>>

NextTotals == CostTotals

SpecTotals == InitTotals /\ [][NextTotals]_vars

----------------------------------------------------------------------------
(* The Subscription model and the specification SpecSubscription: the      *)
(* constructor and from_dict applied to drawn arguments                    *)

VALID_BILLING_CYCLES == {"monthly", "quarterly", "biannual", "annual"}
VALID_STATUSES == {"active", "trial", "expiring", "cancelled"}

ValueError == "ValueError"

\* validate_date_format: the text has the shape YYYY-MM-DD and is a date of
\* the calendar
validate_date_format(d) ==
  /\ d > 0
  /\ MonthOf(d) \in 1..12
  /\ DayOf(d) \in 1..DaysInMonth(YearOf(d), MonthOf(d))

\* start + relativedelta(months = n): the day is cut to the length of the
\* month reached
ClampDay(y, m, d) == Date(y, m, Min(d, DaysInMonth(y, m)))

relativedelta(d, months) ==
  ClampDay(YearOf(d) + (MonthOf(d) - 1 + months) \div 12,
           ((MonthOf(d) - 1 + months) % 12) + 1, DayOf(d))

\* calculate_next_renewal: NoneInt stands for the ValueError of an unknown cycle
calculate_next_renewal(start_date, billing_cycle) ==
  IF billing_cycle = "monthly" THEN relativedelta(start_date, 1)
  ELSE IF billing_cycle = "yearly" THEN relativedelta(start_date, 12)
  ELSE NoneInt

\* the renewal date the constructor sets: the one given when it is truthy,
\* the calculated one otherwise; NoneInt when the step raises ValueError
InitRenewal(start_date, renewal_date, billing_cycle) ==
  IF renewal_date # NoneInt
  THEN IF validate_date_format(renewal_date) THEN renewal_date ELSE NoneInt
  ELSE calculate_next_renewal(start_date, billing_cycle)

\* the checks of Subscription.__init__ in the order of its statements
InitRaises(a) ==
  \/ a.name = ""
  \/ a.cost <= 0
  \/ a.billing_cycle \notin VALID_BILLING_CYCLES
  \/ ~ validate_date_format(a.start_date)
  \/ InitRenewal(a.start_date, a.renewal_date, a.billing_cycle) = NoneInt
  \/ a.status \notin VALID_STATUSES

Subscription_init(a) ==
  IF InitRaises(a)
  THEN [exc |-> ValueError]
  ELSE [exc |-> NoExc, type |-> "Subscription", id |-> NoneInt,
        name |-> a.name, cost |-> a.cost,
        billing_cycle |-> a.billing_cycle, currency |-> a.currency,
        start_date |-> a.start_date,
        renewal_date |-> InitRenewal(a.start_date, a.renewal_date, a.billing_cycle),
        status |-> a.status]

\* Subscription.from_dict: the constructor on the fields of the dictionary
from_dict(data) == Subscription_init(data)

BadDate == 20240230

InitArgs ==
  [name : {"", "Netflix"}, cost : {-500, 0, 1500},
   billing_cycle : {"monthly", "quarterly", "annual", "yearly", "weekly"},
   currency : {"USD"},
   start_date : {20240101, 20240131, 20240229, BadDate},
   renewal_date : {NoneInt, 20231231, 20240301, BadDate},
   status : {"active", "paused"}]

InitSubscription ==
  /\ subs = {}
  /\ budgets = <<>>
  /\ COMMANDS = RegisterAll({}, ImportedModules)
  /\ db_manager = DatabaseManager
  /\ op \in [cmd : {"construct"}, args : InitArgs]
  /\ report = NoReport

Construct ==
  /\ op.cmd = "construct"
  /\ report = NoReport
  /\ report' = [kind |-> "subscription", via |-> "init",
                sub |-> Subscription_init(op.args)]
  /\ UNCHANGED <<subs, budgets, COMMANDS, db_manager, op>>

FromDict ==
  /\ op.cmd = "construct"
  /\ report = NoReport
  /\ report' = [kind |-> "subscription", via |-> "from_dict",
                sub |-> from_dict(op.args)]
  /\ UNCHANGED <<subs, budgets, COMMANDS, db_manager, op>>

NextSubscription == Construct \/ FromDict

SpecSubscription == InitSubscription /\ [][NextSubscription]_vars

----------------------------------------------------------------------------
(* AddCommand and the specification SpecAdd                                *)

SUPPORTED_CURRENCIES ==
  {"USD", "EUR", "GBP", "JPY", "CAD", "AUD", "CHF", "INR", "CNY", "HKD"}

\* str.strip() on the names that occur
Strip(name) ==
  CASE name = " " -> ""
    [] name = " Prime " -> "Prime"
    [] OTHER -> name

\* _validate_cost and _validate_currency: the exception raised, if any
_validate_cost(cost) == IF cost <= 0 THEN ValueError ELSE NoExc

_validate_currency(currency) ==
  IF Upper(currency) \notin SUPPORTED_CURRENCIES THEN ValueError ELSE NoExc

\* _validate_dates: NoneInt is an option that was not given
_validate_dates(start_date, renewal_date, trial_end_date) ==
  IF ~ validate_date_format(start_date) THEN ValueError
  ELSE IF renewal_date # NoneInt /\ ~ validate_date_format(renewal_date)
  THEN ValueError
  ELSE IF renewal_date # NoneInt /\ renewal_date < start_date THEN ValueError
  ELSE IF trial_end_date # NoneInt /\ ~ validate_date_format(trial_end_date)
  THEN ValueError
  ELSE IF trial_end_date # NoneInt /\ trial_end_date < start_date THEN ValueError
  ELSE NoExc

\* the one warning _validate_dates prints
TrialWarning(renewal_date, trial_end_date) ==
  renewal_date # NoneInt /\ trial_end_date # NoneInt /\ trial_end_date > renewal_date

\* the validation steps of execute up to the status check, in their order
InputError(args) ==
  IF _validate_cost(args.cost) # NoExc THEN _validate_cost(args.cost)
  ELSE IF _validate_currency(args.currency) # NoExc
  THEN _validate_currency(args.currency)
  ELSE _validate_dates(args.start_date, args.renewal_date, args.trial_end_date)

\* _find_parent_subscription and the test of its result: get_all_subscriptions
\* returns Subscription objects, and sub["name"] on the first of them raises
\* TypeError; with no rows the loop is empty and the parent is not found
ParentError(store, parent_name) ==
  IF get_subscriptions(store, NoneInt) # {} THEN "TypeError" ELSE ValueError

\* Subscription.to_dict(): a dictionary of the fields
to_dict(subscription) == [subscription EXCEPT !.type = "dict"]

\* DatabaseManager.add_subscription(subscription): the values of the INSERT
\* are the attributes subscription.name, subscription.cost, ...; a dictionary
\* has no such attributes
add_subscription(store, subscription) ==
  IF subscription.type = "dict"
  THEN [store |-> store, exc |-> "AttributeError"]
  ELSE [store |-> store \cup
                    {NewRow(store,
                            [DefaultFields EXCEPT
                               !.name = subscription.name,
                               !.cost = subscription.cost,
                               !.billing_cycle = subscription.billing_cycle,
                               !.currency = subscription.currency,
                               !.start_date = subscription.start_date,
                               !.renewal_date = subscription.renewal_date,
                               !.status = subscription.status])},
        exc |-> NoExc]

\* return 0 at the end of the try block, return 1 in both except clauses
ExitCode_zero(exc) == 0

ExitCode(exc) == IF exc = NoExc THEN 0 ELSE 1

AddResult(ret, exc, store, warned) ==
  [ret |-> ret, exc |-> exc, store |-> store, warned |-> warned]

subscription_data(args) ==
  [name |-> Strip(args.name), cost |-> args.cost,
   billing_cycle |-> args.billing_cycle, currency |-> Upper(args.currency),
   start_date |-> args.start_date, renewal_date |-> args.renewal_date,
   status |-> args.status]

AddSaved(saved, warned) ==
  AddResult(ExitCode(saved.exc), saved.exc, saved.store, warned)

SaveSubscription(store, subscription, warned) ==
  IF subscription.exc # NoExc
  THEN AddResult(ExitCode(subscription.exc), subscription.exc, store, warned)
  ELSE AddSaved(add_subscription(store, to_dict(subscription)), warned)

\* the inner try block of execute
AddWithManager(store, args, warned) ==
  IF args.linked_to # NoneStr
  THEN AddResult(ExitCode(ParentError(store, args.linked_to)),
                 ParentError(store, args.linked_to), store, warned)
  ELSE SaveSubscription(store, Subscription_init(subscription_data(args)), warned)

AddCommand_execute(store, args) ==
  IF args.help_status THEN AddResult(0, NoExc, store, FALSE)
  ELSE IF InputError(args) # NoExc
  THEN AddResult(ExitCode(InputError(args)), InputError(args), store, FALSE)
  ELSE IF args.status \notin VALID_STATUSES
  THEN AddResult(1, NoExc, store,
                 TrialWarning(args.renewal_date, args.trial_end_date))
  ELSE IF Strip(args.name) = ""
  THEN AddResult(ExitCode(ValueError), ValueError, store,
                 TrialWarning(args.renewal_date, args.trial_end_date))
  ELSE AddWithManager(store, args,
                      TrialWarning(args.renewal_date, args.trial_end_date))

BaseArgs ==
  [name |-> "Prime", cost |-> 1500, currency |-> "USD",
   billing_cycle |-> "monthly", start_date |-> 20240101,
   renewal_date |-> NoneInt, trial_end_date |-> NoneInt, status |-> "active",
   linked_to |-> NoneStr, help_status |-> FALSE]

\* acceptable arguments: either case of the currency, either cycle of the
\* parser, the renewal date given or not
GoodArgs ==
  {[BaseArgs EXCEPT !.currency = c, !.billing_cycle = b, !.renewal_date = r,
                    !.start_date = s] :
     c \in {"USD", "usd"}, b \in {"monthly", "yearly"},
     r \in {NoneInt, 20240301}, s \in {20240101, 20240131}}

\* acceptable arguments with one option changed
Changed(a) ==
  {[a EXCEPT !.cost = 0], [a EXCEPT !.cost = -500],
   [a EXCEPT !.currency = "xyz"], [a EXCEPT !.start_date = BadDate],
   [a EXCEPT !.renewal_date = BadDate], [a EXCEPT !.renewal_date = 20231231],
   [a EXCEPT !.name = ""], [a EXCEPT !.name = " "], [a EXCEPT !.name = " Prime "],
   [a EXCEPT !.status = "paused"],
   [a EXCEPT !.linked_to = "Ghost"], [a EXCEPT !.linked_to = "netflix"],
   [a EXCEPT !.trial_end_date = 20231215], [a EXCEPT !.trial_end_date = 20240115],
   [a EXCEPT !.trial_end_date = 20240401], [a EXCEPT !.trial_end_date = BadDate],
   [a EXCEPT !.help_status = TRUE]}

AddArgs == GoodArgs \cup UNION {Changed(a) : a \in GoodArgs}

\* renewalradar add ...
Add(args) ==
  LET r == AddCommand_execute(subs, args)
  IN /\ subs' = r.store
     /\ op' = [cmd |-> "add", args |-> args, ret |-> r.ret, exc |-> r.exc,
               warned |-> r.warned, before |-> subs]
     /\ report' = NoReport
     /\ UNCHANGED <<budgets, COMMANDS, db_manager>>

NextAdd ==
  \/ StoreInsert(DefaultFields)
  \/ \E args \in AddArgs : Add(args)

SpecAdd == Init /\ [][NextAdd]_vars

----------------------------------------------------------------------------
(* UpdateStatusCommand and the specification SpecUpdate                    *)

VALID_PAYMENT_METHODS == {"Visa", "Mastercard", "PayPal", "BankTransfer", "UPI"}
VALID_TAGS == {"personal", "work", "shared", "family", "business"}

\* ValidationRegistry.validate_payment_method: TRUE when it raises ValueError
PaymentMethodRaises(payment_method) ==
  payment_method # NoneStr /\ payment_method # ""
    /\ payment_method \notin VALID_PAYMENT_METHODS

\* ValidationRegistry.validate_tag: TRUE when it raises ValueError; for the
\* empty tag it returns False and does not raise
TagRaises(tag) == tag # "" /\ tag \notin VALID_TAGS

\* the truth value of an option holding a string
Given(value) == value # NoneStr /\ value # ""

\* the test "if not (args.status or args.payment_method or ...)"
UpdateSpecified(args) ==
  \/ Given(args.status) \/ Given(args.payment_method) \/ args.add_tags # {}
  \/ args.remove_tags # {} \/ Given(args.set_status)
  \/ Given(args.set_payment_method) \/ args.set_tags # {}

\* the first ValueError among the validations of execute, in their order
UpdateRaises(args) ==
  \/ Given(args.payment_method) /\ PaymentMethodRaises(args.payment_method)
  \/ \E tag \in args.add_tags : TagRaises(tag)
  \/ Given(args.set_payment_method) /\ PaymentMethodRaises(args.set_payment_method)
  \/ \E tag \in args.set_tags : TagRaises(tag)

\* the fields of the subscription object after the assignments of execute
NewStatus(old, args) ==
  IF Given(args.set_status) THEN args.set_status
  ELSE IF Given(args.status) THEN args.status ELSE old

NewPaymentMethod(old, args) ==
  IF Given(args.set_payment_method) THEN args.set_payment_method
  ELSE IF Given(args.payment_method) THEN args.payment_method ELSE old

TagsBeforeRemove(old, args) ==
  IF args.set_tags # {} THEN args.set_tags ELSE old \cup args.add_tags

NewTags(old, args) == TagsBeforeRemove(old, args) \ args.remove_tags

\* changes is not empty
HasChanges(old, args) ==
  \/ Given(args.status) \/ Given(args.payment_method)
  \/ ~ (args.add_tags \subseteq old)
  \/ Given(args.set_status) \/ Given(args.set_payment_method)
  \/ args.set_tags # {}
  \/ NewTags(old, args) # TagsBeforeRemove(old, args)

\* tags_string written and split again on the next read: the list holding
\* only the empty tag is stored as the empty string
tags_string(tags) == IF tags = {""} THEN {} ELSE tags

\* DatabaseManager.update_subscription: UPDATE ... WHERE id = ?
update_subscription(store, subscription) ==
  {IF row.id = subscription.id THEN subscription ELSE row : row \in store}

Updated(row, args) ==
  [row EXCEPT !.status = NewStatus(row.status, args),
              !.payment_method = NewPaymentMethod(row.payment_method, args),
              !.tags = tags_string(NewTags(row.tags, args))]

UpdateResult(ret, exc, store, wrote) ==
  [ret |-> ret, exc |-> exc, store |-> store, wrote |-> wrote]

\* execute from the subscription found on
UpdateFound(store, row, args) ==
  IF UpdateRaises(args) THEN UpdateResult(1, ValueError, store, FALSE)
  ELSE IF HasChanges(row.tags, args)
  THEN UpdateResult(0, NoExc, update_subscription(store, Updated(row, args)), TRUE)
  ELSE UpdateResult(0, NoExc, store, FALSE)

\* _get_subscription: the subscription with the id among all subscriptions
_get_subscription(store, subscription_id) ==
  {row \in get_subscriptions(store, NoneInt) : row.id = subscription_id}

UpdateStatusCommand_execute(store, args) ==
  IF args.help_tags \/ args.help_payment_methods
  THEN UpdateResult(0, NoExc, store, FALSE)
  ELSE IF ~ UpdateSpecified(args) THEN UpdateResult(1, ValueError, store, FALSE)
  ELSE IF _get_subscription(store, args.subscription_id) = {}
  THEN UpdateResult(1, ValueError, store, FALSE)
  ELSE UpdateFound(store,
                   CHOOSE row \in _get_subscription(store, args.subscription_id) : TRUE,
                   args)

NoUpdate ==
  [subscription_id |-> 1, status |-> NoneStr, payment_method |-> NoneStr,
   add_tags |-> {}, set_status |-> NoneStr, set_payment_method |-> NoneStr,
   set_tags |-> {}, remove_tags |-> {}, help_tags |-> FALSE,
   help_payment_methods |-> FALSE]

\* ids stored and not stored; listed, unlisted and empty values
UpdateArgs ==
  {[NoUpdate EXCEPT !.subscription_id = i, !.status = st, !.payment_method = pm,
                    !.add_tags = at, !.set_payment_method = spm, !.set_tags = stg] :
     i \in {1, MaxId + 1}, st \in {NoneStr, "cancelled"},
     pm \in {NoneStr, "Visa", "Cash"}, at \in {{}, {"family"}, {"vip"}, {""}},
     spm \in {NoneStr, "Bitcoin"}, stg \in {{}, {"shared"}, {"vip", "work"}}}
  \cup {[NoUpdate EXCEPT !.set_status = "trial"],
        [NoUpdate EXCEPT !.remove_tags = {"work"}],
        [NoUpdate EXCEPT !.help_tags = TRUE],
        [NoUpdate EXCEPT !.help_payment_methods = TRUE]}

\* renewalradar update-status ..., once on a store built by insertions
UpdateStatus(args) ==
  /\ op.cmd \in {"none", "insert"}
  /\ LET r == UpdateStatusCommand_execute(subs, args)
     IN /\ subs' = r.store
        /\ op' = [cmd |-> "update-status", args |-> args, ret |-> r.ret,
                  exc |-> r.exc, wrote |-> r.wrote, before |-> subs]
  /\ report' = NoReport
  /\ UNCHANGED <<budgets, COMMANDS, db_manager>>

UpdateFields == {DefaultFields, [DefaultFields EXCEPT !.tags = {"work"}]}

\* a row is stored before the command runs
StoreBefore(f) == op.cmd \in {"none", "insert"} /\ StoreInsert(f)

NextUpdate ==
  \/ \E f \in UpdateFields : StoreBefore(f)
  \/ \E args \in UpdateArgs : UpdateStatus(args)

SpecUpdate == Init /\ [][NextUpdate]_vars

----------------------------------------------------------------------------
(* ViewCommand._convert_currency and the specification SpecConvert: both   *)
(* converters applied to drawn amounts and currency codes                  *)

\* ViewCommand.EXCHANGE_RATES, in hundredths of a unit per US dollar
VIEW_EXCHANGE_RATES ==
  [USD |-> 100, EUR |-> 85, GBP |-> 74, JPY |-> 11350, CAD |-> 125,
   AUD |-> 135, CHF |-> 92, INR |-> 7450, CNY |-> 639, HKD |-> 778]

\* the float of a rate of the table
ViewRate(currency) == FloatOfCents(VIEW_EXCHANGE_RATES[currency])

\* ViewCommand._convert_currency on floats; ok is FALSE for the ValueError
View_convert_currency(amount, from_currency, to_currency) ==
  IF from_currency = to_currency \/ to_currency = NoneStr
  THEN [ok |-> TRUE, amount |-> amount]
  ELSE IF from_currency \notin DOMAIN VIEW_EXCHANGE_RATES
          \/ to_currency \notin DOMAIN VIEW_EXCHANGE_RATES
  THEN [ok |-> FALSE, amount |-> FloatZero]
  ELSE [ok |-> TRUE,
        amount |-> FloatMul(FloatDiv(amount, ViewRate(from_currency)),
                            ViewRate(to_currency))]

\* a converted amount converted back; a failed conversion stays failed
BudgetBack(there, from_currency, to_currency) ==
  IF there.ok
  THEN Budget_convert_currency(there.amount, to_currency, from_currency,
                               EXCHANGE_RATES)
  ELSE there

ViewBack(there, from_currency, to_currency) ==
  IF there.ok THEN View_convert_currency(there.amount, to_currency, from_currency)
  ELSE there

\* codes of both rate tables, of one table only, and of neither
ConvertCodes == {"USD", "EUR", "INR", "CHF", "XYZ"}

\* amounts in cents
ConvertAmounts == {0, 1, 99, 1500, 3333, 10001, 99999}

InitConvert ==
  /\ subs = {}
  /\ budgets = <<>>
  /\ COMMANDS = RegisterAll({}, ImportedModules)
  /\ db_manager = DatabaseManager
  /\ op \in [cmd : {"convert"}, amount : ConvertAmounts,
             from_currency : ConvertCodes, to_currency : ConvertCodes]
  /\ report = NoReport

ConvertReport(budget, view, from_currency, to_currency) ==
  [kind |-> "convert", budget |-> budget, view |-> view,
   budget_back |-> BudgetBack(budget, from_currency, to_currency),
   view_back |-> ViewBack(view, from_currency, to_currency)]

Convert ==
  /\ op.cmd = "convert"
  /\ report = NoReport
  /\ report' =
       ConvertReport(Budget_convert_currency(op.amount, op.from_currency,
                                             op.to_currency, EXCHANGE_RATES),
                     View_convert_currency(FloatOfCents(op.amount),
                                           op.from_currency, op.to_currency),
                     op.from_currency, op.to_currency)
  /\ UNCHANGED <<subs, budgets, COMMANDS, db_manager, op>>

NextConvert == Convert

SpecConvert == InitConvert /\ [][NextConvert]_vars

----------------------------------------------------------------------------
(* ViewCommand and the specifications SpecView and SpecTree                *)

\* datetime.datetime.now().date()
Today == Date(CurrentYear, CurrentMonth, 10)

NextDay(d) ==
  IF DayOf(d) < DaysInMonth(YearOf(d), MonthOf(d)) THEN d + 1
  ELSE IF MonthOf(d) < 12 THEN Date(YearOf(d), MonthOf(d) + 1, 1)
  ELSE Date(YearOf(d) + 1, 1, 1)

\* d + datetime.timedelta(days = n)
RECURSIVE PlusDays(_, _)
PlusDays(d, n) == IF n = 0 THEN d ELSE PlusDays(NextDay(d), n - 1)

\* a row as the Python value of the given type that holds its columns
Obj(row, type) ==
  [type |-> type, id |-> row.id, name |-> row.name,
   parent_subscription_id |-> row.parent_subscription_id,
   status |-> row.status, currency |-> row.currency, cost |-> row.cost,
   renewal_date |-> row.renewal_date]

\* DatabaseManager.get_all_subscriptions: Subscription.from_dict of every row
get_all_subscriptions(store) == {Obj(row, "Subscription") : row \in store}

\* sub['id'], sub["renewal_date"], ...: only a dict can be subscripted
Subscriptable(sub) == sub.type = "dict"

\* _build_subscription_hierarchy: a parent reference that is empty or names
\* no subscription is cleared
_build_subscription_hierarchy(subscriptions) ==
  {[sub EXCEPT !.parent_subscription_id =
                 IF @ \in Ids(subscriptions) THEN @ ELSE NoParent] :
     sub \in subscriptions}

\* the conversion fields _enhance_subscriptions adds
Converted(sub, target_currency, conv) ==
  IF target_currency # NoneStr /\ conv.ok
  THEN [converted_cost |-> conv.amount, display_currency |-> target_currency,
        is_converted |-> sub.currency # target_currency, warning |-> FALSE]
  ELSE [converted_cost |-> FloatOfCents(sub.cost),
        display_currency |-> sub.currency, is_converted |-> FALSE,
        warning |-> target_currency # NoneStr]

Enhanced(sub, c) ==
  [id |-> sub.id, name |-> sub.name,
   parent_subscription_id |-> sub.parent_subscription_id,
   renewal_date |-> sub.renewal_date,
   original_cost |-> sub.cost, original_currency |-> sub.currency,
   converted_cost |-> c.converted_cost, display_currency |-> c.display_currency,
   is_converted |-> c.is_converted, warning |-> c.warning]

_enhance_subscriptions(subscriptions, target_currency) ==
  {Enhanced(sub, Converted(sub, target_currency,
                           View_convert_currency(FloatOfCents(sub.cost),
                                                 sub.currency, target_currency))) :
     sub \in subscriptions}

\* _filter_by_status; no row of the model has a trial end date
_filter_by_status(subscriptions, status) ==
  IF status = "upcoming"
  THEN {sub \in subscriptions :
          Today <= sub.renewal_date /\ sub.renewal_date <= PlusDays(Today, 30)}
  ELSE IF status = "overdue"
  THEN {sub \in subscriptions : sub.renewal_date < Today}
  ELSE IF status = "trial" THEN {}
  ELSE subscriptions

\* the order of sort(key = lambda s: s['name'].lower()) on the names that
\* occur; the sort is stable and the list comes in the order of the ids
NameRank(name) ==
  CASE Lower(name) = "hulu" -> 1
    [] Lower(name) = "netflix" -> 2
    [] OTHER -> 3

NameBefore(a, b) ==
  NameRank(a.name) < NameRank(b.name)
    \/ (NameRank(a.name) = NameRank(b.name) /\ a.id < b.id)

SortedFirst(S) == CHOOSE a \in S : \A b \in S \ {a} : NameBefore(a, b)

RECURSIVE SortByName(_)
SortByName(S) ==
  IF S = {} THEN <<>>
  ELSE <<SortedFirst(S)>> \o SortByName(S \ {SortedFirst(S)})

\* _build_tree_structure: the roots and the children lists
TreeRoots(subscriptions) ==
  SortByName({sub \in subscriptions : sub.parent_subscription_id = NoParent})

TreeChildren(subscriptions, id) ==
  SortByName({sub \in subscriptions : sub.parent_subscription_id = id})

\* roots[:limit]
Limited(list, limit) ==
  IF limit # NoneInt /\ limit > 0 /\ limit < Len(list)
  THEN SubSeq(list, 1, limit) ELSE list

\* _print_tree_node on each node of a list in turn: the ids of the lines
\* printed
RECURSIVE PrintNodes(_, _)
PrintNodes(list, subscriptions) ==
  IF list = <<>> THEN <<>>
  ELSE <<Head(list).id>>
       \o PrintNodes(TreeChildren(subscriptions, Head(list).id), subscriptions)
       \o PrintNodes(Tail(list), subscriptions)

_display_dependency_tree(subscriptions, limit) ==
  PrintNodes(Limited(TreeRoots(subscriptions), limit), subscriptions)

\* the table: the ids of its lines, in the order of the names
\* (--sort and the grouping of children under their parents are left out)
_display_subscriptions(subscriptions, limit) ==
  [i \in DOMAIN Limited(SortByName(subscriptions), limit) |->
     Limited(SortByName(subscriptions), limit)[i].id]

ViewResult(ret, exc, printed, lines) ==
  [ret |-> ret, exc |-> exc, printed |-> printed, lines |-> lines]

\* execute from the filtered subscriptions on
ViewFiltered(filtered, args) ==
  IF filtered = {} THEN ViewResult(0, NoExc, <<>>, {})
  ELSE ViewResult(0, NoExc,
                  IF args.show_dependency_tree
                  THEN _display_dependency_tree(filtered, args.limit)
                  ELSE _display_subscriptions(filtered, args.limit),
                  filtered)

\* execute from the list of subscriptions on
ViewSubscriptions(subscriptions, args) ==
  IF subscriptions = {} THEN ViewResult(0, NoExc, <<>>, {})
  ELSE IF \E sub \in subscriptions : ~ Subscriptable(sub)
  THEN ViewResult(1, "TypeError", <<>>, {})
  ELSE ViewFiltered(
         _filter_by_status(
           _enhance_subscriptions(_build_subscription_hierarchy(subscriptions),
                                  args.currency),
           args.status),
         args)

ViewCommand_execute(store, args) ==
  ViewSubscriptions(get_all_subscriptions(store), args)

ViewCommandArgs ==
  [currency : {NoneStr, "USD", "EUR"}, status : {"all", "overdue"},
   show_dependency_tree : BOOLEAN, limit : {NoneInt, 1}]

\* renewalradar view ...
View(args) ==
  LET r == ViewCommand_execute(subs, args)
  IN /\ op' = [cmd |-> "view", args |-> args, ret |-> r.ret, exc |-> r.exc,
               printed |-> r.printed, lines |-> r.lines]
     /\ report' = NoReport
     /\ db_manager' = close(Queried(DatabaseManager))
     /\ UNCHANGED <<subs, budgets, COMMANDS>>

\* a subscription in a listed and one in an unlisted currency
ViewFields ==
  {DefaultFields,
   [DefaultFields EXCEPT !.name = "Hulu", !.currency = "XYZ", !.cost = 999]}

NextView ==
  \/ \E f \in ViewFields : StoreInsert(f)
  \/ \E args \in ViewCommandArgs : View(args)
  \/ \E args \in PeriodSetArgs \cup PeriodViewArgs : Budget(args)

SpecView == Init /\ [][NextView]_vars

----------------------------------------------------------------------------
(* The specification SpecTree: the dependency tree of the view command on  *)
(* a list of subscription dictionaries, for every way three subscriptions  *)
(* can name their parents                                                  *)

TreeIds == 1..3

\* no parent, one of the three (itself included), or an id that is not stored
TreeParents == {NoParent} \cup TreeIds \cup {9}

\* overdue, or renewing after today
TreeRenewals == {20240201, 20240301}

\* the dictionaries of the list
TreeDicts(parents, renewals) ==
  {Obj([DefaultFields EXCEPT !.parent_subscription_id = parents[i],
                             !.renewal_date = renewals[i]] @@ [id |-> i],
       "dict") : i \in TreeIds}

TreeArgs(status, limit) ==
  [currency |-> NoneStr, status |-> status, show_dependency_tree |-> TRUE,
   limit |-> limit]

InitTree ==
  /\ subs = {}
  /\ budgets = <<>>
  /\ COMMANDS = RegisterAll({}, ImportedModules)
  /\ db_manager = DatabaseManager
  /\ op \in [cmd : {"tree"}, parents : [TreeIds -> TreeParents],
              renewals : [TreeIds -> TreeRenewals],
              status : {"all", "overdue"}, limit : {NoneInt, 1}]
  /\ report = NoReport

\* execute from the list of subscriptions on, with --show-dependency-tree
RenderTree ==
  /\ op.cmd = "tree"
  /\ report = NoReport
  /\ report' = [kind |-> "tree",
                result |-> ViewSubscriptions(TreeDicts(op.parents, op.renewals),
                                             TreeArgs(op.status, op.limit))]
  /\ UNCHANGED <<subs, budgets, COMMANDS, db_manager, op>>

NextTree == RenderTree

SpecTree == InitTree /\ [][NextTree]_vars

----------------------------------------------------------------------------
(* DatabaseManager.get_filtered_subscriptions and the summary command      *)

\* the tags of a row in the order of the stored comma-joined string
TagRank(tag) ==
  CASE tag = "family" -> 1
    [] tag = "fun" -> 2
    [] tag = "network" -> 3
    [] tag = "work" -> 4
    [] OTHER -> 5

RECURSIVE TagList(_)
TagList(tags) ==
  IF tags = {} THEN <<>>
  ELSE <<CHOOSE t \in tags : \A u \in tags : TagRank(t) <= TagRank(u)>>
       \o TagList(tags \ {CHOOSE t \in tags : \A u \in tags : TagRank(t) <= TagRank(u)})

\* Subscription.from_dict of a row: the payment method '' or NULL becomes
\* None, the tag string becomes a list
SubscriptionOf(row) ==
  [type |-> "Subscription", id |-> row.id, name |-> row.name,
   status |-> row.status, display_status |-> NoneStr,
   currency |-> row.currency, original_currency |-> NoneStr,
   cost |-> FloatOfCents(row.cost), billing_cycle |-> row.billing_cycle,
   renewal_date |-> row.renewal_date,
   payment_method |-> row.payment_method, tags |-> TagList(row.tags)]

RowWithId(rows, id) == CHOOSE s \in rows : s.id = id

\* the rows of a SELECT without ORDER BY, in rowid order, as objects
RECURSIVE Fetched(_)
Fetched(rows) ==
  IF rows = {} THEN <<>>
  ELSE Append(Fetched({s \in rows : s.id # MaxOf(Ids(rows))}),
              SubscriptionOf(RowWithId(rows, MaxOf(Ids(rows)))))

NoFilters == [currency |-> NoneStr, status |-> {}, tag |-> {}, payment_methods |-> {}]

\* the WHERE clause: a filter that is missing or empty adds no condition
FilterWhere(s, filters) ==
  /\ filters.currency = NoneStr \/ s.currency = filters.currency
  /\ filters.status = {} \/ s.status \in filters.status
  /\ filters.tag = {} \/ \E tag \in filters.tag : TagsLike(s.tags, tag)
  /\ filters.payment_methods = {} \/ s.payment_method \in filters.payment_methods

get_filtered_subscriptions(store, filters) ==
  Fetched({s \in store : FilterWhere(s, filters)})

\* SummaryCommand.execute: the filters built from the arguments
SummaryFilters(args) ==
  [currency |-> NoneStr,
   status |-> IF args.status # {} THEN args.status
              ELSE IF ~ args.include_cancelled THEN {"active", "trial", "expiring"}
              ELSE {},
   tag |-> args.tags,
   payment_methods |-> args.payment_methods]

\* mutant: the lower end of the range is not tested
_is_date_within_range_open(date, start_date, end_date) ==
  validate_date_format(date) /\ date <= end_date

\* _is_date_within_range: start_date <= date <= end_date, False for a string
\* that is no date
_is_date_within_range(date, start_date, end_date) ==
  validate_date_format(date) /\ start_date <= date /\ date <= end_date

\* the loop of execute on one subscription: display_status, and the currency
\* overwritten with the one asked for
Classified(sub, args) ==
  [sub EXCEPT
     !.display_status =
        IF /\ sub.status \in {"active", "trial"}
           /\ sub.renewal_date # NoneInt
           /\ _is_date_within_range(sub.renewal_date, Today,
                                    PlusDays(Today, args.expiring_days))
        THEN "expiring" ELSE sub.status,
     !.original_currency =
        IF args.currency # NoneStr /\ sub.currency # args.currency
        THEN sub.currency ELSE NoneStr,
     !.currency =
        IF args.currency # NoneStr /\ sub.currency # args.currency
        THEN args.currency ELSE sub.currency]

Classify(subscriptions, args) ==
  [i \in 1..Len(subscriptions) |-> Classified(subscriptions[i], args)]

\* status_counts[display_status] += 1
status_counts(subscriptions) ==
  [s \in VALID_STATUSES |->
     Cardinality({i \in 1..Len(subscriptions) : subscriptions[i].display_status = s})]

\* sub.cost if period == "monthly" else sub.annual_cost
PeriodCost(sub, period) == SummaryTerm(sub.cost, sub.billing_cycle, period)

\* sum(... for sub in subscriptions)
RECURSIVE TotalCost(_, _)
TotalCost(subscriptions, period) ==
  IF subscriptions = <<>> THEN FloatZero
  ELSE FloatAdd(TotalCost(SubSeq(subscriptions, 1, Len(subscriptions) - 1), period),
                PeriodCost(subscriptions[Len(subscriptions)], period))

\* mutant: the bucket is overwritten
AddToBucket_overwrite(buckets, name, cost) ==
  IF \E i \in 1..Len(buckets) : buckets[i].name = name
  THEN [i \in 1..Len(buckets) |->
          IF buckets[i].name = name
          THEN [name |-> name, cost |-> cost, count |-> buckets[i].count + 1]
          ELSE buckets[i]]
  ELSE Append(buckets, [name |-> name, cost |-> cost, count |-> 1])

\* costs[name] += cost on a defaultdict(float), which keeps its keys in the
\* order of their first use
AddToBucket(buckets, name, cost) ==
  IF \E i \in 1..Len(buckets) : buckets[i].name = name
  THEN [i \in 1..Len(buckets) |->
          IF buckets[i].name = name
          THEN [name |-> name, cost |-> FloatAdd(buckets[i].cost, cost),
                count |-> buckets[i].count + 1]
          ELSE buckets[i]]
  ELSE Append(buckets, [name |-> name, cost |-> cost, count |-> 1])

\* method = sub.payment_method or "Unknown"
MethodOf(sub) == IF sub.payment_method \in {NoneStr, ""} THEN "Unknown" ELSE sub.payment_method

RECURSIVE PaymentBuckets(_, _)
PaymentBuckets(subscriptions, period) ==
  IF subscriptions = <<>> THEN <<>>
  ELSE AddToBucket(PaymentBuckets(SubSeq(subscriptions, 1, Len(subscriptions) - 1), period),
                   MethodOf(subscriptions[Len(subscriptions)]),
                   PeriodCost(subscriptions[Len(subscriptions)], period))

\* for tag in sub.tags: tag_costs[tag] += cost
RECURSIVE AddToTags(_, _, _)
AddToTags(buckets, tags, cost) ==
  IF tags = <<>> THEN buckets
  ELSE AddToTags(AddToBucket(buckets, Head(tags), cost), Tail(tags), cost)

RECURSIVE TagBuckets(_, _)
TagBuckets(subscriptions, period) ==
  IF subscriptions = <<>> THEN <<>>
  ELSE AddToTags(TagBuckets(SubSeq(subscriptions, 1, Len(subscriptions) - 1), period),
                 IF subscriptions[Len(subscriptions)].tags = <<>> THEN <<"Untagged">>
                 ELSE subscriptions[Len(subscriptions)].tags,
                 PeriodCost(subscriptions[Len(subscriptions)], period))

\* sum(costs.values())
RECURSIVE BucketSum(_)
BucketSum(buckets) ==
  IF buckets = <<>> THEN FloatZero
  ELSE FloatAdd(BucketSum(SubSeq(buckets, 1, Len(buckets) - 1)), buckets[Len(buckets)].cost)

InsertAt(list, x, k) == SubSeq(list, 1, k) \o <<x>> \o SubSeq(list, k + 1, Len(list))

\* sorted(costs.items(), key=lambda x: x[1], reverse=True): the sort is
\* stable, so items of equal cost keep the order of the dictionary
RECURSIVE SortedBySpend(_)
SortedBySpend(items) ==
  IF items = <<>> THEN <<>>
  ELSE InsertAt(SortedBySpend(SubSeq(items, 1, Len(items) - 1)),
                items[Len(items)],
                Cardinality({i \in 1..(Len(items) - 1) :
                               FloatCmp(items[i].cost, items[Len(items)].cost) >= 0}))

\* [:count]
Sliced(list, count) == SubSeq(list, 1, Min(count, Len(list)))

RECURSIVE BigToInt(_)
BigToInt(a) == IF a = <<>> THEN 0 ELSE a[1] + Base * BigToInt(Tail(a))

\* f"{x:.2f}" for x >= 0, as a number of cents
Format2f(x) ==
  IF x.m = <<>> THEN 0
  ELSE IF x.e >= 0 THEN BigToInt(BigMulSmall(BigShl(x.m, x.e), 100))
  ELSE BigToInt(RoundBits(BigMulSmall(x.m, 100), FALSE, x.e, 0 - x.e).m)

\* the printed rows: name, count and f"{cost:.2f}"
Printed(items) ==
  [i \in 1..Len(items) |->
     [name |-> items[i].name, count |-> items[i].count, cost |-> Format2f(items[i].cost)]]

\* _display_top_tags: nothing when no subscription has a tag
_display_top_tags(subscriptions, period, count) ==
  IF \A i \in 1..Len(subscriptions) : subscriptions[i].tags = <<>> THEN <<>>
  ELSE Printed(Sliced(SortedBySpend(TagBuckets(subscriptions, period)), count))

_display_top_payment_methods(subscriptions, period, count) ==
  Printed(Sliced(SortedBySpend(PaymentBuckets(subscriptions, period)), count))

\* the rows of a breakdown in the order printed, and the sum of its buckets
BreakdownOf(buckets) ==
  [rows |-> Printed(SortedBySpend(buckets)), total |-> Format2f(BucketSum(buckets))]

\* _display_payment_method_breakdown: the rows and the TOTAL row
_display_payment_method_breakdown(subscriptions, period) ==
  BreakdownOf(PaymentBuckets(subscriptions, period))

\* _display_tag_breakdown: the rows; their sum is not printed
_display_tag_breakdown(subscriptions, period) ==
  BreakdownOf(TagBuckets(subscriptions, period))

NotShown == [rows |-> <<>>, total |-> NoneInt]

SummaryResult(ret, store, subscriptions, total, sections) ==
  [ret |-> ret, store |-> store, subscriptions |-> subscriptions,
   total |-> total, sections |-> sections]

\* mutant: the rewritten currency of the subscriptions is saved
Persisted_saved(store, subscriptions) ==
  {[row EXCEPT !.currency =
      IF \E i \in 1..Len(subscriptions) : subscriptions[i].id = row.id
      THEN (CHOOSE s \in {subscriptions[i] : i \in 1..Len(subscriptions)} :
              s.id = row.id).currency
      ELSE row.currency] : row \in store}

\* execute changes display_status and currency on the objects only: it makes
\* no call that writes
Persisted(store, subscriptions) == store

\* if args.top_tags: ... for None and for a number
TopGiven(count) == count # NoneInt /\ count # 0

\* execute, from the classification on
Summarized(store, subscriptions, args) ==
  SummaryResult(0, Persisted(store, subscriptions), subscriptions,
    Format2f(TotalCost(subscriptions, args.period)),
    [top_tags |->
       IF TopGiven(args.top_tags)
       THEN _display_top_tags(subscriptions, args.period, args.top_tags) ELSE <<>>,
     top_payments |->
       IF TopGiven(args.top_payments)
       THEN _display_top_payment_methods(subscriptions, args.period, args.top_payments)
       ELSE <<>>,
     by_payment_method |->
       IF args.by_payment_method
       THEN _display_payment_method_breakdown(subscriptions, args.period)
       ELSE NotShown,
     by_tag |->
       IF args.by_tag THEN _display_tag_breakdown(subscriptions, args.period)
       ELSE NotShown])

NoSections == [top_tags |-> <<>>, top_payments |-> <<>>, by_payment_method |-> NotShown, by_tag |-> NotShown]

SummaryOf(store, subscriptions, args) ==
  IF subscriptions = <<>> THEN SummaryResult(0, store, <<>>, NoneInt, NoSections)
  ELSE Summarized(store, Classify(subscriptions, args), args)

SummaryCommand_execute(store, args) ==
  SummaryOf(store, get_filtered_subscriptions(store, SummaryFilters(args)), args)

SummaryDone(args, r) ==
  /\ subs' = r.store
  /\ op' = [cmd |-> "summary", args |-> args, ret |-> r.ret, exc |-> NoExc,
            subscriptions |-> r.subscriptions, total |-> r.total]
  /\ report' = [kind |-> "summary",
                status_counts |-> status_counts(r.subscriptions),
                sections |-> r.sections]
  /\ db_manager' = Queried(DatabaseManager)
  /\ UNCHANGED <<budgets, COMMANDS>>

\* renewalradar summary ..., once the rows are stored
Summary(args) ==
  /\ op.cmd \in {"none", "insert", "budget"}
  /\ SummaryDone(args, SummaryCommand_execute(subs, args))

\* DatabaseManager().get_filtered_subscriptions(filters) on its own
GetFiltered(filters) ==
  /\ op.cmd \in {"none", "insert"}
  /\ op' = [cmd |-> "filtered", filters |-> filters,
            subscriptions |-> get_filtered_subscriptions(subs, filters)]
  /\ report' = NoReport
  /\ db_manager' = Queried(DatabaseManager)
  /\ UNCHANGED <<subs, budgets, COMMANDS>>

----------------------------------------------------------------------------
(* The specification SpecSummary                                           *)

Row(name, status, currency, cost, cycle, renewal, payment_method, tags) ==
  [DefaultFields EXCEPT !.name = name, !.status = status, !.currency = currency,
                        !.cost = cost, !.billing_cycle = cycle,
                        !.renewal_date = renewal,
                        !.payment_method = payment_method, !.tags = tags]

\* subscriptions renewing within a week of the tenth of February 2024,
\* before it and after it, of every status, with and without payment method
\* and tags, two of them of equal cost
SummaryFields ==
  {Row("Netflix", "active", "USD", 1500, "monthly", 20240215, "paypal", {"work"}),
   Row("Hulu", "active", "USD", 1500, "monthly", 20240201, "card", {"fun"}),
   Row("Hulu", "trial", "EUR", 999, "annual", 20240217, NoneStr, {"work", "fun"}),
   Row("Netflix", "cancelled", "USD", 2000, "monthly", 20240212, "card", {}),
   Row("Hulu", "expiring", "USD", 10, "quarterly", 20240301, NoneStr, {}),
   Row("Netflix", "active", "USD", 30, "monthly", 20240310, "paypal", {"network"})}

PlainSummary ==
  [status |-> {}, include_cancelled |-> FALSE, payment_methods |-> {},
   tags |-> {}, currency |-> NoneStr, by_tag |-> TRUE,
   by_payment_method |-> TRUE, top_tags |-> 2, top_payments |-> 2,
   period |-> "monthly", expiring_days |-> 7]

SummaryArgs ==
  {[PlainSummary EXCEPT !.status = s, !.include_cancelled = c,
                        !.payment_methods = p, !.tags = t] :
     s \in {{}, {"active", "cancelled"}}, c \in BOOLEAN,
     p \in {{}, {"card"}}, t \in {{}, {"work"}, {"WORK"}}}
  \cup
  {[PlainSummary EXCEPT !.currency = c, !.period = p, !.top_tags = n,
                        !.top_payments = n, !.expiring_days = d,
                        !.by_tag = b, !.by_payment_method = b] :
     c \in {NoneStr, "EUR"}, p \in {"monthly", "annual"},
     n \in {NoneInt, 1, 2}, d \in {7, 30}, b \in BOOLEAN}

FilterSets ==
  [currency : {NoneStr, "USD"}, status : {{}, {"active", "trial"}},
   tag : {{}, {"work"}, {"WORK"}, {"fun", "family"}},
   payment_methods : {{}, {"card"}}]

NextSummary ==
  \/ \E f \in SummaryFields : StoreInsert(f)
  \/ \E args \in SummaryArgs : Summary(args)
  \/ \E filters \in FilterSets : GetFiltered(filters)

SpecSummary == Init /\ [][NextSummary]_vars

----------------------------------------------------------------------------
(* The specification SpecReadOnly: the commands that only read, the        *)
(* summary and the budget view, over stored subscriptions and budgets      *)

ReadOnlyFields ==
  {Row("Netflix", "active", "USD", 1500, "monthly", 20240215, "paypal", {"work"}),
   Row("Hulu", "trial", "EUR", 999, "annual", 20240217, NoneStr, {"work", "fun"}),
   Row("Hulu", "cancelled", "USD", 2000, "monthly", 20240201, "card", {})}

ReadOnlyArgs ==
  {[PlainSummary EXCEPT !.currency = c, !.include_cancelled = i, !.expiring_days = d] :
     c \in {NoneStr, "USD", "EUR"}, i \in BOOLEAN, d \in {7, 30}}

NextReadOnly ==
  \/ \E f \in ReadOnlyFields : StoreInsert(f)
  \/ \E args \in ReadOnlyArgs : Summary(args)
  \/ \E args \in PeriodSetArgs \cup PeriodViewArgs : Budget(args)

SpecReadOnly == Init /\ [][NextReadOnly]_vars

----------------------------------------------------------------------------
(* The specification SpecManager: the operations of one DatabaseManager    *)

\* one operation on the instance: it raises on a closed connection, else
\* it runs and leaves the connection as the method does
ManagerCall(name, store, after) ==
  /\ op' = [cmd |-> name,
            exc |-> IF Executes(db_manager) THEN NoExc ELSE "ProgrammingError"]
  /\ subs' = IF Executes(db_manager) THEN store ELSE subs
  /\ db_manager' = IF Executes(db_manager) THEN after ELSE db_manager
  /\ report' = NoReport
  /\ UNCHANGED <<budgets, COMMANDS>>

\* UPDATE subscriptions SET status = ? WHERE id = ?
update_subscription_status(store, subscription_id, new_status) ==
  {IF row.id = subscription_id THEN [row EXCEPT !.status = new_status] ELSE row :
     row \in store}

\* DELETE FROM subscriptions WHERE id = ?
delete_subscription(store, subscription_id) ==
  {row \in store : row.id # subscription_id}

ManagerAdd(f) ==
  /\ Cardinality(subs) < MaxSubs
  /\ NextRowId(subs) <= MaxId
  /\ ManagerCall("add_subscription", subs \cup {NewRow(subs, f)},
                 ClosedInPlace(connect(db_manager)))

ManagerGetFiltered(filters) ==
  ManagerCall("get_filtered_subscriptions", subs, Queried(db_manager))

ManagerGetDistinctValues ==
  ManagerCall("get_distinct_values", subs, ClosedInPlace(connect(db_manager)))

ManagerGetAllTags ==
  ManagerCall("get_all_tags", subs, ClosedInPlace(connect(db_manager)))

ManagerUpdate(id, payment_method) ==
  /\ id \in Ids(subs)
  /\ ManagerCall("update_subscription",
                 update_subscription(subs, [RowWithId(subs, id) EXCEPT
                                              !.payment_method = payment_method]),
                 ClosedInPlace(connect(db_manager)))

ManagerUpdateStatus(id, new_status) ==
  ManagerCall("update_subscription_status",
              update_subscription_status(subs, id, new_status),
              ClosedInPlace(connect(db_manager)))

ManagerDelete(id) ==
  ManagerCall("delete_subscription", delete_subscription(subs, id),
              Queried(db_manager))

ManagerClose ==
  /\ db_manager' = close(db_manager)
  /\ op' = [cmd |-> "close", exc |-> NoExc]
  /\ report' = NoReport
  /\ UNCHANGED <<subs, budgets, COMMANDS>>

ManagerFields ==
  {Row("Netflix", "active", "USD", 1500, "monthly", 20240215, "paypal", {"work"}),
   Row("Hulu", "trial", "EUR", 999, "annual", 20240217, NoneStr, {"work", "fun"})}

NextManager ==
  \/ \E f \in ManagerFields : ManagerAdd(f)
  \/ \E filters \in {NoFilters, [NoFilters EXCEPT !.status = {"active"}]} :
       ManagerGetFiltered(filters)
  \/ ManagerGetDistinctValues
  \/ ManagerGetAllTags
  \/ \E id \in 1..MaxId, payment_method \in {"card"} : ManagerUpdate(id, payment_method)
  \/ \E id \in 1..MaxId, new_status \in {"cancelled", "active"} :
       ManagerUpdateStatus(id, new_status)
  \/ \E id \in 1..MaxId : ManagerDelete(id)
  \/ ManagerClose

SpecManager == Init /\ [][NextManager]_vars

----------------------------------------------------------------------------
(* Properties of the delete command and of the registry                    *)

\* the rows the identifier of a delete command names
Targeted(store, args) ==
  {s \in store :
     \/ args.name # NoneStr /\ Lower(s.name) = Lower(args.name)
     \/ args.id # NoneInt /\ s.id = args.id}

HasChild(store, t) == \E c \in store : c.parent_subscription_id = t.id

Deletable(store, args) ==
  /\ (args.name = NoneStr) # (args.id = NoneInt)
  /\ ~(args.dry_run /\ args.force)
  /\ Cardinality(Targeted(store, args)) = 1
  /\ \A t \in Targeted(store, args) : ~HasChild(store, t)

C3_AllCommandsRegistered ==
  /\ CommandSurface \subseteq COMMANDS
  /\ (op.cmd = "main" /\ op.command \in CommandSurface)
       => op.outcome = "dispatched"

----------------------------------------------------------------------------
(* Properties of the budget command                                        *)

\* the input of a budget command passes the documented validation
BudgetInputValid(args) ==
  /\ args.month = NoneInt \/ args.month \in 1..12
  /\ args.year = NoneInt \/ args.year \in 2000..(CurrentYear + 10)
  /\ args.set # NoneInt => (args.set > 0 /\ args.currency # NoneStr)
  /\ args.base_currency = NoneStr
     \/ Upper(args.base_currency) \in {"USD", "EUR", "INR"}

\* C4: execute returns exactly 0 when the command succeeds and exactly 1 on
\* a validation or runtime error; the budget command (set and view) never
\* returns anything else.
C4_ExitCodeZeroOrOne ==
  op.cmd = "budget" =>
    op.ret = (IF BudgetInputValid(op.args) THEN 0 ELSE 1)

\* C5: no exception leaves execute; an exception raised while a command
\* runs is turned into the return value 1.
C5_NoExceptionEscapes ==
  op.cmd \in {"budget", "delete"} => op.exc = NoExc

\* the call reaches the storage layer and the storage layer accepts it
SetSucceeds(args) ==
  args.set # NoneInt /\ args.set > 0 /\ args.currency # NoneStr

SameTriple(row, year, month, currency) ==
  row.year = year /\ row.month = month /\ row.currency = currency

RowsOf(table, year, month, currency) ==
  {i \in DOMAIN table : SameTriple(table[i], year, month, currency)}

OneRowPerTriple(table) ==
  \A i, j \in DOMAIN table :
    SameTriple(table[i], table[j].year, table[j].month, table[j].currency)
      => i = j

\* the rows of the other triples, in table order
OtherRows(table, year, month, currency) ==
  LET Other(row) == ~SameTriple(row, year, month, currency)
  IN SelectSeq(table, Other)

C7_InvalidInputWritesNothing ==
  [][(op'.cmd = "budget" /\ ~BudgetInputValid(op'.args))
       => budgets' = budgets]_vars

\* one unit of a billing cycle, in months
CycleMonths(cycle) ==
  CASE cycle = "monthly" -> 1
    [] cycle = "quarterly" -> 3
    [] cycle = "biannual" -> 6
    [] cycle = "annual" -> 12
    [] cycle = "yearly" -> 12

\* a date advanced by whole calendar months, the day kept within the month
AdvanceMonths(d, n) ==
  LET t == MonthOf(d) - 1 + n
      y == YearOf(d) + (t \div 12)
      m == (t % 12) + 1
      len == DaysInMonth(y, m)
  IN Date(y, m, IF DayOf(d) <= len THEN DayOf(d) ELSE len)

\* active during a month, as the design states it
ActiveDuringMonth(s, year, month) ==
  LET first_day == Date(year, month, 1)
      last_day == Date(year, month, DaysInMonth(year, month))
  IN /\ s.start_date <= last_day
     /\ \/ (first_day <= s.renewal_date /\ s.renewal_date <= last_day)
        \/ AdvanceMonths(s.renewal_date, CycleMonths(s.billing_cycle)) >= first_day

\* the subscriptions a budget row is measured against
CountedFor(store, row) ==
  {s \in store :
     /\ s.currency = row.currency
     /\ s.status # "cancelled"
     /\ ActiveDuringMonth(s, row.year, row.month)}

Unfiltered == op.cmd = "budget" /\ op.args.tag = NoneStr
              /\ op.args.payment_method = NoneStr

\* C8: the utilized amount of a budget row is the sum of the stored costs of
\* the subscriptions of its currency that are not cancelled and are active
\* during its month, and remaining = cap - utilized.
C8_UtilizedIsSumOfActiveCosts ==
  (report.kind = "budgets" /\ Unfiltered) =>
    \A i \in DOMAIN report.rows :
      LET row == report.rows[i]
      IN /\ row.utilized = SumCost(CountedFor(subs, row))
         /\ row.remaining = row.budget - row.utilized
         /\ \E j \in DOMAIN budgets :
              /\ SameTriple(budgets[j], row.year, row.month, row.currency)
              /\ budgets[j].amount = row.budget

\* C9: for every billing cycle, a non-cancelled subscription is counted for
\* a month exactly when start_date <= last day and (first day <=
\* renewal_date <= last day, or renewal_date advanced by one unit of its own
\* billing cycle >= first day).
C9_ActiveTestCoversEveryCycle ==
  (report.kind = "budgets" /\ Unfiltered) =>
    \A i \in DOMAIN report.rows :
      report.rows[i].details = Ids(CountedFor(subs, report.rows[i]))

RECURSIVE Gcd(_, _)
Gcd(a, b) == IF b = 0 THEN a ELSE Gcd(b, a % b)

\* a fraction of naturals in lowest terms
Lowest(n, d) == <<n \div Gcd(n, d), d \div Gcd(n, d)>>

\* num / den = 100 * utilized / cap, and 0 when the cap is 0
PercentIs(percent_used, utilized, cap) ==
  /\ percent_used.den > 0
  /\ cap = 0 => percent_used.num = 0
  /\ cap # 0 => Lowest(percent_used.num, percent_used.den)
                  = Lowest(100 * utilized, cap)

RECURSIVE SumSeq(_)
SumSeq(q) == IF q = <<>> THEN 0 ELSE Head(q) + SumSeq(Tail(q))

\* the risk class the rule gives a cap and a utilized amount, both in cents
RiskClass(cap, utilized) ==
  IF utilized > cap THEN "OVER"
  ELSE IF 100 * utilized > 90 * cap THEN "RISK"
  ELSE "OK"

\* C11: a budget row is 'over' exactly when utilized > cap, 'at risk'
\* exactly when utilized <= cap and 90 < percentage used <= 100, and 'ok'
\* otherwise; at exactly 90% it is 'ok' and at exactly 100% 'at risk'.
C11_RiskClass ==
  report.kind = "risk" =>
    report.status = RiskClass(op.budget_amount, SumSeq(op.costs))

\* the subscriptions of a budget row that match the filters of the command
MatchingFor(store, row, args) ==
  {s \in CountedFor(store, row) :
     /\ args.tag = NoneStr \/ args.tag \in s.tags
     /\ args.payment_method = NoneStr \/ s.payment_method = args.payment_method}

\* utilized and count of an entry are those of the matching subscriptions
\* and its cap is the stored amount
CountsOnly(entry, matching) ==
  /\ entry.utilized = SumCost(matching)
  /\ entry.count = Cardinality(matching)
  /\ \E j \in DOMAIN budgets :
       /\ SameTriple(budgets[j], entry.year, entry.month, entry.currency)
       /\ budgets[j].amount = entry.budget

\* C12: under a tag and/or payment-method filter every utilized amount and
\* count of budget view, in the table and in the --detailed section alike,
\* counts only the subscriptions matching the filter, and the cap shown is
\* the stored one.
C12_FiltersRestrictUtilized ==
  (op.cmd = "budget" /\ report.kind = "budgets") =>
    /\ \A i \in DOMAIN report.rows :
         CountsOnly(report.rows[i], MatchingFor(subs, report.rows[i], op.args))
    /\ \A i \in DOMAIN report.detailed :
         CountsOnly(report.detailed[i],
                    MatchingFor(subs, report.detailed[i], op.args))

\* C13: for every billing cycle and cost, what a subscription adds to a
\* monthly total, multiplied by 12, is what it adds to the annual total, in
\* the summary command and in the totals of the view command.
C13_MonthlyTimesTwelve ==
  report.kind = "totals" =>
    /\ FloatCmp(FloatMulInt(report.summary_monthly, 12), report.summary_annual) = 0
    /\ FloatCmp(FloatMulInt(report.view_monthly, 12), report.view_yearly) = 0

\* the arguments are acceptable apart from the billing cycle and the renewal
\* date
ValidApartFromRenewal(a) ==
  /\ a.name # ""
  /\ a.cost > 0
  /\ validate_date_format(a.start_date)
  /\ a.status \in VALID_STATUSES

\* C14: a Subscription constructed without a renewal date, with the billing
\* cycle monthly, yearly or annual and otherwise valid arguments, is
\* constructed, and its renewal date is the start date plus one calendar
\* month (monthly) or one calendar year (yearly, annual).
C14_DerivedRenewal ==
  (/\ report.kind = "subscription"
   /\ op.args.renewal_date = NoneInt
   /\ op.args.billing_cycle \in {"monthly", "yearly", "annual"}
   /\ ValidApartFromRenewal(op.args))
  => /\ report.sub.exc = NoExc
     /\ report.sub.renewal_date =
          relativedelta(op.args.start_date,
                        IF op.args.billing_cycle = "monthly" THEN 1 ELSE 12)

\* C15: every constructed Subscription has a positive cost and a renewal date
\* not before its start date, and arguments violating either are rejected
\* with ValueError.
C15_ConstructedInvariants ==
  report.kind = "subscription" =>
    /\ report.sub.exc = NoExc =>
         /\ report.sub.cost > 0
         /\ report.sub.renewal_date >= report.sub.start_date
    /\ (\/ op.args.cost <= 0
        \/ (/\ validate_date_format(op.args.start_date)
            /\ validate_date_format(op.args.renewal_date)
            /\ op.args.renewal_date < op.args.start_date))
       => report.sub.exc = ValueError

\* an add command that asks for a subscription to be stored
IsAdd == op.cmd = "add" /\ ~ op.args.help_status

\* the required options are acceptable and no optional one is given
PlainAdd(args) ==
  /\ Strip(args.name) # ""
  /\ args.cost > 0
  /\ Upper(args.currency) \in SUPPORTED_CURRENCIES
  /\ validate_date_format(args.start_date)
  /\ args.billing_cycle \in {"monthly", "yearly"}
  /\ args.renewal_date = NoneInt
  /\ args.status \in VALID_STATUSES
  /\ args.linked_to = NoneStr

\* the stored row the arguments describe
Carries(row, args) ==
  /\ row.name = Strip(args.name)
  /\ row.cost = args.cost
  /\ row.currency = Upper(args.currency)
  /\ row.billing_cycle = args.billing_cycle
  /\ row.start_date = args.start_date
  /\ row.renewal_date =
       relativedelta(args.start_date,
                     IF args.billing_cycle = "monthly" THEN 1 ELSE 12)

\* C16: an add command with a non-empty name, a positive cost, a supported
\* currency, a valid start date and the cycle monthly or yearly returns 0 and
\* stores exactly one new record carrying those values, the currency in upper
\* case and the renewal date one cycle after the start date.
C16_AddStoresOne ==
  (IsAdd /\ PlainAdd(op.args) /\ op.args.trial_end_date = NoneInt)
  => /\ op.ret = 0
     /\ op.before \subseteq subs
     /\ Cardinality(subs \ op.before) = 1
     /\ \A row \in subs \ op.before : Carries(row, op.args)

\* the parent name matches a stored subscription, whatever the case
ParentStored(store, parent_name) ==
  \E row \in store : Lower(row.name) = Lower(parent_name)

\* the input is invalid in one of the ways the add command checks
InvalidAdd(store, args) ==
  \/ args.cost <= 0
  \/ Upper(args.currency) \notin SUPPORTED_CURRENCIES
  \/ ~ validate_date_format(args.start_date)
  \/ args.renewal_date # NoneInt /\ ~ validate_date_format(args.renewal_date)
  \/ args.renewal_date # NoneInt /\ args.renewal_date < args.start_date
  \/ Strip(args.name) = ""
  \/ args.status \notin VALID_STATUSES
  \/ args.linked_to # NoneStr /\ ~ ParentStored(store, args.linked_to)

\* C17: an add command with a non-positive cost, an unsupported currency, a
\* malformed start or renewal date, a renewal date before the start date, an
\* empty name, an invalid status or a --linked-to name matching no stored
\* subscription returns 1 and leaves the stored subscriptions unchanged.
C17_InvalidAddRejected ==
  (IsAdd /\ InvalidAdd(op.before, op.args))
  => (op.ret = 1 /\ subs = op.before)

\* an add command naming a parent that is not stored, with a subscription
\* stored, has returned 1 and written nothing
C17_Witness ==
  /\ IsAdd
  /\ op.args.linked_to = "Ghost"
  /\ op.before # {}
  /\ InvalidAdd(op.before, op.args)
  /\ op.ret = 1
  /\ subs = op.before

\* C18: an add command whose trial end date is before its start date, all
\* other options acceptable, is not rejected: a warning is given and the
\* subscription is stored.
C18_TrialBeforeStartWarns ==
  (/\ IsAdd
   /\ PlainAdd(op.args)
   /\ validate_date_format(op.args.trial_end_date)
   /\ op.args.trial_end_date < op.args.start_date)
  => /\ op.exc # ValueError
     /\ op.ret = 0
     /\ Cardinality(subs \ op.before) = 1

\* an update-status command that asks for an update
IsUpdate ==
  /\ op.cmd = "update-status"
  /\ ~ op.args.help_tags
  /\ ~ op.args.help_payment_methods

\* the command names an id that is not stored, specifies no update, or gives
\* a payment method or a tag outside the allow-lists
InvalidUpdate(store, args) ==
  \/ args.subscription_id \notin Ids(store)
  \/ ~ UpdateSpecified(args)
  \/ Given(args.payment_method) /\ args.payment_method \notin VALID_PAYMENT_METHODS
  \/ Given(args.set_payment_method)
       /\ args.set_payment_method \notin VALID_PAYMENT_METHODS
  \/ \E tag \in args.add_tags \cup args.set_tags : tag \notin VALID_TAGS

\* C19: an update-status command that names an id not in the store, specifies
\* no update, or gives a payment method or tag outside the allow-list returns
\* 1 and performs no write, whatever other updates it asks for: the stored
\* records are unchanged.
C19_InvalidUpdateRejected ==
  (IsUpdate /\ InvalidUpdate(op.before, op.args))
  => (op.ret = 1 /\ ~ op.wrote /\ subs = op.before)

\* C20: converting an amount from a currency to the same currency returns
\* the amount unchanged in BudgetCommand._convert_currency and in
\* ViewCommand._convert_currency, whether or not the code is in the rate
\* table.
C20_SameCurrencyIdentity ==
  (report.kind = "convert" /\ op.from_currency = op.to_currency)
  => /\ report.budget = [ok |-> TRUE, amount |-> op.amount]
     /\ report.view = [ok |-> TRUE, amount |-> FloatOfCents(op.amount)]

\* an amount of odd cents in a currency of neither rate table has been
\* converted to that same currency and has come back unchanged
C20_Witness ==
  /\ report.kind = "convert"
  /\ op.from_currency = "XYZ"
  /\ op.to_currency = "XYZ"
  /\ op.amount = 3333
  /\ report.budget.ok
  /\ report.budget.amount = 3333
  /\ report.view.ok
  /\ report.view.amount = FloatOfCents(3333)

\* C21: for two currencies of a rate table and an amount of whole cents,
\* converting the amount from the first to the second and the result back
\* returns the amount, in BudgetCommand._convert_currency and in
\* ViewCommand._convert_currency.
C21_RoundTrip ==
  report.kind = "convert" =>
    /\ ({op.from_currency, op.to_currency} \subseteq DOMAIN EXCHANGE_RATES
        => (report.budget_back.ok /\ report.budget_back.amount = op.amount))
    /\ ({op.from_currency, op.to_currency} \subseteq DOMAIN VIEW_EXCHANGE_RATES
        => (/\ report.view_back.ok
            /\ FloatCmp(report.view_back.amount, FloatOfCents(op.amount)) = 0))

\* the converted amounts of the rows whose currency is the base currency or
\* has a rate, added up
RECURSIVE ConvertibleBudget(_, _)
ConvertibleBudget(rows, base_currency) ==
  IF rows = <<>> THEN 0
  ELSE (IF Head(rows).currency = base_currency
           \/ Head(rows).currency \in DOMAIN EXCHANGE_RATES
        THEN Budget_convert_currency(Head(rows).budget, Head(rows).currency,
                                     base_currency, EXCHANGE_RATES).amount
        ELSE 0)
       + ConvertibleBudget(Tail(rows), base_currency)

\* C22: a conversion with a currency code absent from the rate table does not
\* abort the command. The view command returns 0 and shows the subscription
\* with its original cost and currency, not marked as converted; the budget
\* view leaves the row out of the totals in the base currency and goes on.
C22_UnlistedCurrencyNotFatal ==
  /\ (/\ op.cmd = "view"
      /\ op.args.currency # NoneStr
      /\ op.args.status = "all"
      /\ \E row \in subs : row.currency \notin DOMAIN VIEW_EXCHANGE_RATES)
     => /\ op.ret = 0
        /\ \A row \in subs :
             row.currency \notin DOMAIN VIEW_EXCHANGE_RATES
             => \E line \in op.lines :
                  /\ line.id = row.id
                  /\ line.converted_cost = FloatOfCents(row.cost)
                  /\ line.display_currency = row.currency
                  /\ ~ line.is_converted
  /\ (op.cmd = "budget" /\ report.kind = "budgets")
     => /\ op.exc = NoExc
        /\ report.total.budget =
             ConvertibleBudget(report.rows, report.base_currency)

----------------------------------------------------------------------------
(* Properties of the summary command                                       *)

\* the printed costs of the rows of a breakdown, added up
RECURSIVE PrintedSum(_)
PrintedSum(rows) ==
  IF rows = <<>> THEN 0 ELSE Head(rows).cost + PrintedSum(Tail(rows))

BothBreakdowns ==
  /\ op.cmd = "summary"
  /\ op.subscriptions # <<>>
  /\ op.args.by_payment_method
  /\ op.args.by_tag

BucketRank(name) ==
  CASE name \in {"Unknown", "Untagged"} -> 0
    [] name = "card" -> 1
    [] name = "family" -> 2
    [] name = "fun" -> 3
    [] name = "network" -> 4
    [] name = "paypal" -> 5
    [] OTHER -> 6

\* a printed list falls in cost, and rows of equal cost rise in name
OrderedTop(list) ==
  \A i, j \in 1..Len(list) :
    i < j => \/ list[i].cost > list[j].cost
             \/ /\ list[i].cost = list[j].cost
                /\ BucketRank(list[i].name) < BucketRank(list[j].name)

MethodsOf(subscriptions) ==
  {MethodOf(subscriptions[i]) : i \in 1..Len(subscriptions)}

TagsOf(subscriptions) ==
  UNION {IF subscriptions[i].tags = <<>> THEN {"Untagged"}
         ELSE {subscriptions[i].tags[k] : k \in 1..Len(subscriptions[i].tags)} :
         i \in 1..Len(subscriptions)}

\* C24: the lists of --top-tags N and --top-payments N hold min(N, number of
\* buckets) rows, in descending order of spend, rows of equal spend in
\* ascending order of bucket name whatever the order the subscriptions were
\* read in. (The list of tags is looked at when a subscription has a tag.)
C24_TopLists ==
  (op.cmd = "summary" /\ op.subscriptions # <<>>) =>
    /\ TopGiven(op.args.top_payments) =>
         /\ Len(report.sections.top_payments)
              = Min(op.args.top_payments, Cardinality(MethodsOf(op.subscriptions)))
         /\ OrderedTop(report.sections.top_payments)
    /\ (/\ TopGiven(op.args.top_tags)
        /\ \E i \in 1..Len(op.subscriptions) : op.subscriptions[i].tags # <<>>) =>
         /\ Len(report.sections.top_tags)
              = Min(op.args.top_tags, Cardinality(TagsOf(op.subscriptions)))
         /\ OrderedTop(report.sections.top_tags)

\* the subscription of a summary that came from a stored row
Shown(row) ==
  CHOOSE s \in {op.subscriptions[i] : i \in 1..Len(op.subscriptions)} : s.id = row.id

IsShown(row) == \E i \in 1..Len(op.subscriptions) : op.subscriptions[i].id = row.id

\* the renewal date lies between today and today plus the threshold
RenewsWithin(row, days) ==
  Today <= row.renewal_date /\ row.renewal_date <= PlusDays(Today, days)

\* C25: a summarized subscription is displayed as expiring exactly when its
\* stored status is active or trial and its renewal date lies between today
\* and today plus the threshold of --expiring-days, both included; otherwise
\* it is displayed with its stored status, so one that is overdue is never
\* turned into expiring; and the counts per displayed status add up to the
\* number of subscriptions summarized.
C25_ExpiringClassification ==
  (op.cmd = "summary" /\ op.subscriptions # <<>>) =>
    /\ \A row \in subs :
         IsShown(row) =>
           Shown(row).display_status =
             IF row.status \in {"active", "trial"}
                /\ RenewsWithin(row, op.args.expiring_days)
             THEN "expiring" ELSE row.status
    /\ \A row \in subs :
         (IsShown(row) /\ row.renewal_date < Today)
           => Shown(row).display_status = row.status
    /\ SumSeq([i \in 1..4 |->
                 report.status_counts[<<"active", "trial", "expiring", "cancelled">>[i]]])
         = Len(op.subscriptions)
    /\ \A s \in DOMAIN report.status_counts :
         report.status_counts[s]
           = Cardinality({row \in subs : IsShown(row) /\ Shown(row).display_status = s})

\* an active subscription renewing in five days and one that is overdue
\* have been summarized with the threshold of seven days: the first is
\* displayed as expiring, the second as active
C25_Witness ==
  /\ op.cmd = "summary"
  /\ op.args.expiring_days = 7
  /\ Len(op.subscriptions) = 2
  /\ \E row \in subs :
       /\ row.status = "active"
       /\ row.renewal_date = 20240215
       /\ IsShown(row)
       /\ Shown(row).display_status = "expiring"
  /\ \E row \in subs :
       /\ row.status = "active"
       /\ row.renewal_date = 20240201
       /\ IsShown(row)
       /\ Shown(row).display_status = "active"
  /\ report.status_counts["expiring"] = 1
  /\ report.status_counts["active"] = 1

\* the step is a run of the summary command or of budget --view
ReadOnlyRun ==
  \/ op'.cmd = "summary"
  \/ op'.cmd = "budget" /\ op'.args.set = NoneInt /\ op'.args.view

\* C26: a run of the summary command, whatever its filters, threshold and
\* --currency, and a run of budget --view leave every stored subscription
\* and every budget row as they were, although the summary rewrites
\* display_status and currency on the objects it read.
C26_ReadOnlyCommands ==
  [][ReadOnlyRun => (subs' = subs /\ budgets' = budgets)]_vars

\* a summary in EUR has rewritten the currency of a subscription stored in
\* USD and displayed it as expiring, while the stored row is in USD and
\* active and a budget row is stored
C26_Witness ==
  /\ op.cmd = "summary"
  /\ op.args.currency = "EUR"
  /\ budgets # <<>>
  /\ \E row \in subs :
       /\ row.currency = "USD"
       /\ row.status = "active"
       /\ IsShown(row)
       /\ Shown(row).currency = "EUR"
       /\ Shown(row).original_currency = "USD"
       /\ Shown(row).display_status = "expiring"


\* the filters as the claim reads them: a tag counts when it occurs in a tag
\* of the row as it is written
SatisfiesFilters(row, filters) ==
  /\ filters.currency = NoneStr \/ row.currency = filters.currency
  /\ filters.status = {} \/ row.status \in filters.status
  /\ filters.tag = {} \/ \E tag \in filters.tag : \E t \in row.tags : IsSubstring(tag, t)
  /\ filters.payment_methods = {} \/ row.payment_method \in filters.payment_methods

\* C28: get_filtered_subscriptions returns exactly the stored subscriptions
\* that satisfy every filter supplied: the currency is equal, the status is
\* one of the statuses, one of the tags occurs as a substring of the
\* comma-joined tags, the payment method is one of the methods; without
\* filters, or with empty ones, it returns every stored subscription.
C28_FilteredExactly ==
  op.cmd = "filtered" =>
    /\ {op.subscriptions[i].id : i \in 1..Len(op.subscriptions)}
         = {row.id : row \in {r \in subs : SatisfiesFilters(r, op.filters)}}
    /\ Len(op.subscriptions)
         = Cardinality({r \in subs : SatisfiesFilters(r, op.filters)})
    /\ op.filters = NoFilters => Len(op.subscriptions) = Cardinality(subs)

----------------------------------------------------------------------------
(* Properties of the storage connection                                    *)

\* C27: when a command run ends, the DatabaseManager the command created
\* and connected has its connection released: no connection of it is left
\* open when execute returns.
C27_ConnectionReleased ==
  op.cmd \in {"summary", "view"} => db_manager.conn # "open"

\* C29: for one DatabaseManager and any sequence of its operations, no
\* operation executes against a closed connection: whenever conn is not
\* None, the connection it holds is open.
C29_NoClosedConnection ==
  /\ db_manager.conn # "closed"
  /\ op.cmd # "none" => op.exc # "ProgrammingError"

----------------------------------------------------------------------------
(* Properties of the dependency tree                                       *)

\* how many lines of the tree show the subscription
TimesPrinted(printed, id) == Cardinality({i \in 1..Len(printed) : printed[i] = id})

\* the subscription passes the filter of --status
PassesStatus(id) == op.status = "all" \/ op.renewals[id] < Today

\* C30: the dependency tree without a limit prints every subscription that
\* passed the status filter exactly once, a child whose parent was filtered
\* out and the members of any chain of parents included, and the printing
\* ends for every way the subscriptions name their parents, themselves and
\* each other in a cycle included.
C30_TreePrintsEachOnce ==
  (report.kind = "tree" /\ op.limit = NoneInt) =>
    /\ report.result.ret = 0
    /\ \A id \in TreeIds :
         TimesPrinted(report.result.printed, id) = IF PassesStatus(id) THEN 1 ELSE 0

====
